---- MODULE Spec2Model ----
(***************************************************************************)
(* Model of the dividend scanner repository: the scan engine, the health   *)
(* score calculator and the predefined scans of src/src/scanner/engine.py, *)
(* the portfolio risk assessment and the dividend backtester of            *)
(* src/risk_management.py, and the token store of                          *)
(* src/src/api/fyers_adapter.py.                                           *)
(*                                                                         *)
(* Number encoding.  Python floats are modelled as scaled integers:        *)
(*   dividend_yield, payout_ratio, return_on_equity, debt_to_equity and    *)
(*   dividend_coverage_ratio in 1/10000 (0.04 is 400, 2.0 is 20000),       *)
(*   pe_ratio, market_cap (in units of 1e9) and growth rates as integers.  *)
(* A health score is held in units of 1/ScoreScale points, so that the     *)
(* growth component 20 * positive/len is exact.                            *)
(*                                                                         *)
(* Value encoding.  A Python value that may be None is a tuple:            *)
(*   <<>> is None (or a missing dict key), <<v>> is the number v (or the   *)
(*   string v for sector), <<p, "%">> is the string "p%".                  *)
(***************************************************************************)
EXTENDS Integers, Sequences, FiniteSets, TLC

VARIABLES
    hs_pc,      \* health score call: "off", "args" (called), "returned"
    hs_args,    \* the arguments of calculate_health_score
    hs_score,   \* its return value, None before the return
    sc_pc,      \* scan_stocks: "off", "idle", "loop", "returned", "raised"
    symbols,    \* scan_stocks argument: the symbols, distinct, named 1..n
    config,     \* scan_stocks argument: the ScanConfiguration
    sc_preset,  \* the PreDefinedScans method that made config, "none" if none did
    sc_i,       \* position of the for loop: index of the next symbol
    fetched,    \* what the data pipeline answered for symbols 1..sc_i-1
    results,    \* the local list results
    df,         \* the returned DataFrame, as the sequence of its rows
    now,        \* datetime.now(), in days
    hi_pc,      \* derived history fields: "off", "args" (called), "returned"
    hi_data,    \* the dividend history they are derived from
    hi_now,     \* datetime.now() at the call, in days
    hi_years,   \* the value of _count_growth_years
    hi_next,    \* the value of _estimate_next_ex_dividend
    rk_pc,      \* assess_portfolio_risk: "off", "args" (called), "returned"
    portfolio,  \* its argument, the list of holdings
    assessment, \* the dict it returns, None before the return
    bt_pc,      \* backtest_strategy: "off", "loop", "returned"
    rebalance_dates,    \* the number of rebalance dates
    bt_date,    \* position of the for loop: index of the next rebalance date
    markets,    \* current_data at the rebalance dates passed so far
    dividends,  \* the dividend payments of historical_data, read after the loop
    cash,       \* the local cash
    bt_portfolio,       \* the local dict portfolio, symbol and shares, in insertion order
    transactions,       \* the local list transactions
    portfolio_values,   \* the local list portfolio_values
    portfolio_value,    \* the local portfolio_value of the latest rebalance
    target_allocation,  \* the local target_allocation of the latest rebalance
    bt_result,  \* the dict returned, None before the return
    tk_pc,      \* the token store of fyers_adapter: "off", "ready"
    token_file, \* the dict TOKEN_FILE holds
    clock,      \* time.time(), in seconds
    tk_call     \* the latest call on the token store and its outcome

hsVars == <<hs_pc, hs_args, hs_score>>

scVars == <<sc_pc, symbols, config, sc_preset, sc_i, fetched, results, df, now>>

hiVars == <<hi_pc, hi_data, hi_now, hi_years, hi_next>>

rkVars == <<rk_pc, portfolio, assessment>>

btVars == <<bt_pc, rebalance_dates, bt_date, markets, dividends, cash, bt_portfolio,
            transactions, portfolio_values, portfolio_value, target_allocation, bt_result>>

tkVars == <<tk_pc, token_file, clock, tk_call>>

vars == <<hs_pc, hs_args, hs_score, sc_pc, symbols, config, sc_preset, sc_i, fetched, results, df, now,
          hi_pc, hi_data, hi_now, hi_years, hi_next, rk_pc, portfolio, assessment,
          bt_pc, rebalance_dates, bt_date, markets, dividends, cash, bt_portfolio,
          transactions, portfolio_values, portfolio_value, target_allocation, bt_result,
          tk_pc, token_file, clock, tk_call>>

----------------------------------------------------------------------------
(* Bounds of the model *)

\* longest dividend history passed to calculate_health_score
MaxHist == 3

\* longest symbol list passed to scan_stocks
MaxSymbols == 2

----------------------------------------------------------------------------
(* Python values *)

None == <<>>

Num(v) == <<v>>

PctStr(p) == <<p, "%">>

IsNone(x) == Len(x) = 0

\* isinstance(x, str)
IsStr(x) == Len(x) = 2

\* float(x.replace('%', '')) / 100 in 1/10000: "4%" is 0.04 is 400
StrToFraction(x) == x[1] * 100

\* bool(x): None and 0 are falsy, a non-empty string is truthy
Truthy(x) == IF IsNone(x) THEN FALSE ELSE IF IsStr(x) THEN TRUE ELSE x[1] # 0

\* a or b
PyOr(a, b) == IF Truthy(a) THEN a ELSE b

Min(a, b) == IF a <= b THEN a ELSE b

Max(a, b) == IF a >= b THEN a ELSE b

RECURSIVE Gcd(_, _)
Gcd(a, b) == IF b = 0 THEN a ELSE Gcd(b, a % b)

RECURSIVE LcmUpTo(_)
LcmUpTo(n) == IF n <= 1 THEN 1 ELSE (LcmUpTo(n - 1) * n) \div Gcd(LcmUpTo(n - 1), n)

\* score unit: one point is ScoreScale units
ScoreScale == LcmUpTo(MaxHist)

Points(p) == p * ScoreScale

----------------------------------------------------------------------------
(* DividendHealthCalculator.calculate_health_score *)

\* dividend_data['dividend_growth_rate'].dropna()
GrowthRates(dividend_data) ==
    LET rates == [k \in 1..Len(dividend_data) |-> dividend_data[k].dividend_growth_rate]
    IN  SelectSeq(rates, LAMBDA r : ~IsNone(r))

\* (growth_rates > 0).sum()
RECURSIVE PositiveCount(_)
PositiveCount(rates) ==
    IF Len(rates) = 0 THEN 0
    ELSE (IF Head(rates)[1] > 0 THEN 1 ELSE 0) + PositiveCount(Tail(rates))

\* YieldScore taking 5 points off for a yield above 8% instead of adding 5
Mutant_YieldScore(stock_data) ==
    LET raw == PyOr(stock_data.dividend_yield, Num(0))
        dividend_yield == IF IsStr(raw) THEN StrToFraction(raw) ELSE raw[1]
    IN  IF 200 <= dividend_yield /\ dividend_yield <= 600 THEN Points(20)
        ELSE IF 100 <= dividend_yield /\ dividend_yield < 200 THEN Points(15)
        ELSE IF 600 < dividend_yield /\ dividend_yield <= 800 THEN Points(15)
        ELSE IF dividend_yield > 800 THEN 0 - Points(5)
        ELSE 0

\* 1. Dividend Yield Score (0-20 points)
YieldScore(stock_data) ==
    LET raw == PyOr(stock_data.dividend_yield, Num(0))
        dividend_yield == IF IsStr(raw) THEN StrToFraction(raw) ELSE raw[1]
    IN  IF 200 <= dividend_yield /\ dividend_yield <= 600 THEN Points(20)
        ELSE IF 100 <= dividend_yield /\ dividend_yield < 200 THEN Points(15)
        ELSE IF 600 < dividend_yield /\ dividend_yield <= 800 THEN Points(15)
        ELSE IF dividend_yield > 800 THEN Points(5)
        ELSE 0

\* 2. Payout Ratio Score (0-25 points)
PayoutScore(stock_data, financial_metrics) ==
    LET raw == PyOr(stock_data.payout_ratio, financial_metrics.payout_ratio)
        payout_ratio == IF IsStr(raw) THEN StrToFraction(raw) ELSE raw[1]
    IN  IF ~Truthy(raw) THEN 0
        ELSE IF 3000 <= payout_ratio /\ payout_ratio <= 6000 THEN Points(25)
        ELSE IF 2000 <= payout_ratio /\ payout_ratio < 3000 THEN Points(20)
        ELSE IF 6000 < payout_ratio /\ payout_ratio <= 8000 THEN Points(15)
        ELSE IF payout_ratio > 8000 THEN Points(5)
        ELSE 0

\* GrowthScore asking for more than three growth rates
Mutant_GrowthScore(dividend_data) ==
    LET growth_rates == GrowthRates(dividend_data)
    IN  IF Len(dividend_data) = 0 THEN 0
        ELSE IF Len(growth_rates) > 3
             THEN (PositiveCount(growth_rates) * Points(20)) \div Len(growth_rates)
             ELSE 0

\* 3. Dividend Growth Score (0-20 points)
GrowthScore(dividend_data) ==
    LET growth_rates == GrowthRates(dividend_data)
    IN  IF Len(dividend_data) = 0 THEN 0
        ELSE IF Len(growth_rates) >= 3
             THEN (PositiveCount(growth_rates) * Points(20)) \div Len(growth_rates)
             ELSE 0

\* 4. Financial Health Score (0-20 points)
FinancialHealth(financial_metrics) ==
    LET pe_ratio == financial_metrics.pe_ratio
        debt_to_equity == financial_metrics.debt_to_equity
        roe == financial_metrics.return_on_equity
    IN  (IF Truthy(pe_ratio) /\ 10 <= pe_ratio[1] /\ pe_ratio[1] <= 25 THEN Points(7) ELSE 0)
      + (IF Truthy(debt_to_equity) /\ debt_to_equity[1] <= 5000 THEN Points(7) ELSE 0)
      + (IF Truthy(roe) /\ roe[1] >= 1500 THEN Points(6) ELSE 0)

\* 5. Coverage Ratio Score (0-15 points)
CoverageScore(financial_metrics) ==
    LET coverage_ratio == financial_metrics.dividend_coverage_ratio
    IN  IF ~Truthy(coverage_ratio) THEN 0
        ELSE IF coverage_ratio[1] >= 20000 THEN Points(15)
        ELSE IF coverage_ratio[1] >= 15000 THEN Points(12)
        ELSE IF coverage_ratio[1] >= 12000 THEN Points(8)
        ELSE Points(3)

calculate_health_score(stock_data, financial_metrics, dividend_data) ==
    LET max_score == Points(100)
        score == YieldScore(stock_data)
               + PayoutScore(stock_data, financial_metrics)
               + GrowthScore(dividend_data)
               + FinancialHealth(financial_metrics)
               + CoverageScore(financial_metrics)
    IN  Min(score, max_score)

----------------------------------------------------------------------------
(* DividendScanner: the dividend history helpers.  A dividend history is a *)
(* sequence of records with distinct ex_dividend_date (one dividend per    *)
(* ex-date), in the order the data pipeline returned them.                 *)

\* the record with the k-th latest ex_dividend_date:
\* dividend_data.sort_values('ex_dividend_date', ascending=False).iloc[k - 1]
Latest(dividend_data, k) ==
    CHOOSE r \in {dividend_data[j] : j \in 1..Len(dividend_data)} :
        Cardinality({j \in 1..Len(dividend_data) :
            dividend_data[j].ex_dividend_date > r.ex_dividend_date}) = k - 1

_get_last_dividend_amount(dividend_data) ==
    IF Len(dividend_data) = 0 THEN None
    ELSE Num(Latest(dividend_data, 1).dividend_amount)

RECURSIVE SumRates(_)
SumRates(rates) == IF Len(rates) = 0 THEN 0 ELSE Head(rates)[1] + SumRates(Tail(rates))

\* the mean as the fraction num/den
_get_avg_dividend_growth(dividend_data) ==
    LET growth_rates == GrowthRates(dividend_data)
    IN  IF Len(dividend_data) = 0 THEN None
        ELSE IF Len(growth_rates) > 0
             THEN <<[num |-> SumRates(growth_rates), den |-> Len(growth_rates)]>>
             ELSE None

\* for rate in reversed(growth_rates.tolist()): count while rate > 0
RECURSIVE TrailingPositive(_)
TrailingPositive(rates) ==
    IF Len(rates) = 0 THEN 0
    ELSE IF rates[Len(rates)][1] > 0
         THEN 1 + TrailingPositive(SubSeq(rates, 1, Len(rates) - 1))
         ELSE 0

_count_growth_years(dividend_data) ==
    IF Len(dividend_data) = 0 THEN 0
    ELSE TrailingPositive(GrowthRates(dividend_data))

\* _estimate_next_ex_dividend without the sort: the first two records of the
\* history as it came
Mutant_estimate_unsorted(dividend_data, today) ==
    IF Len(dividend_data) = 0 THEN None
    ELSE IF Len(dividend_data) >= 2
         THEN LET last_date == dividend_data[1].ex_dividend_date
                  prev_date == dividend_data[2].ex_dividend_date
                  interval == last_date - prev_date
                  estimated_next == last_date + interval
              IN  IF estimated_next > today THEN Num(estimated_next) ELSE None
         ELSE None

\* _estimate_next_ex_dividend taking a quarter as the interval of a history
\* of one record
Mutant_estimate_quarterly(dividend_data, today) ==
    IF Len(dividend_data) = 0 THEN None
    ELSE LET last_date == Latest(dividend_data, 1).ex_dividend_date
             interval == IF Len(dividend_data) >= 2
                         THEN last_date - Latest(dividend_data, 2).ex_dividend_date
                         ELSE 90
             estimated_next == last_date + interval
         IN  IF estimated_next > today THEN Num(estimated_next) ELSE None

_estimate_next_ex_dividend(dividend_data, today) ==
    IF Len(dividend_data) = 0 THEN None
    ELSE IF Len(dividend_data) >= 2
         THEN LET last_date == Latest(dividend_data, 1).ex_dividend_date
                  prev_date == Latest(dividend_data, 2).ex_dividend_date
                  interval == last_date - prev_date
                  estimated_next == last_date + interval
              IN  IF estimated_next > today THEN Num(estimated_next) ELSE None
         ELSE None

----------------------------------------------------------------------------
(* DividendScanner: filters *)

ScanCriteria ==
    {"MIN_DIVIDEND_YIELD", "MAX_DIVIDEND_YIELD", "MIN_MARKET_CAP", "MAX_MARKET_CAP",
     "MIN_YEARS_DIVIDEND_GROWTH", "MAX_PAYOUT_RATIO", "MIN_DIVIDEND_COVERAGE",
     "SECTORS", "MIN_PE_RATIO", "MAX_PE_RATIO", "MIN_ROE", "MAX_DEBT_TO_EQUITY",
     "EX_DIVIDEND_WITHIN_DAYS"}

\* the documented operators of ScanFilter
Operators == {"gte", "lte", "eq", "in", "not_in"}

ScanFilter(criteria, value, operator) ==
    [criteria |-> criteria, value |-> value, operator |-> operator]

\* the value to compare, None when there is none
_get_filter_value(criteria, stock_data, financial_metrics, dividend_data, today) ==
    IF criteria \in {"MIN_DIVIDEND_YIELD", "MAX_DIVIDEND_YIELD"} THEN
        LET yield_val == stock_data.dividend_yield
        IN  IF IsStr(yield_val) THEN Num(StrToFraction(yield_val)) ELSE yield_val
    ELSE IF criteria \in {"MIN_MARKET_CAP", "MAX_MARKET_CAP"} THEN
        stock_data.market_cap
    ELSE IF criteria = "MAX_PAYOUT_RATIO" THEN
        LET payout == stock_data.payout_ratio
        IN  IF IsStr(payout) THEN Num(StrToFraction(payout)) ELSE payout
    ELSE IF criteria = "MIN_DIVIDEND_COVERAGE" THEN
        financial_metrics.dividend_coverage_ratio
    ELSE IF criteria = "SECTORS" THEN
        stock_data.sector
    ELSE IF criteria \in {"MIN_PE_RATIO", "MAX_PE_RATIO"} THEN
        financial_metrics.pe_ratio
    ELSE IF criteria = "MIN_ROE" THEN
        financial_metrics.return_on_equity
    ELSE IF criteria = "MAX_DEBT_TO_EQUITY" THEN
        financial_metrics.debt_to_equity
    ELSE IF criteria = "MIN_YEARS_DIVIDEND_GROWTH" THEN
        Num(_count_growth_years(dividend_data))
    ELSE IF criteria = "EX_DIVIDEND_WITHIN_DAYS" THEN
        LET next_ex_div == _estimate_next_ex_dividend(dividend_data, today)
        IN  IF ~IsNone(next_ex_div) THEN Num(next_ex_div[1] - today) ELSE None
    ELSE None

\* _apply_filter with the comparison of "lte" turned around
Mutant_apply_filter(actual_value, filter_value, operator) ==
    IF IsNone(actual_value) THEN FALSE
    ELSE IF operator = "gte" THEN actual_value[1] >= filter_value
    ELSE IF operator = "lte" THEN actual_value[1] >= filter_value
    ELSE IF operator = "eq" THEN actual_value[1] = filter_value
    ELSE IF operator = "in" THEN actual_value[1] \in filter_value
    ELSE IF operator = "not_in" THEN actual_value[1] \notin filter_value
    ELSE FALSE

\* actual_value is the tuple encoding, filter_value a number or a set
_apply_filter(actual_value, filter_value, operator) ==
    IF IsNone(actual_value) THEN FALSE
    ELSE IF operator = "gte" THEN actual_value[1] >= filter_value
    ELSE IF operator = "lte" THEN actual_value[1] <= filter_value
    ELSE IF operator = "eq" THEN actual_value[1] = filter_value
    ELSE IF operator = "in" THEN actual_value[1] \in filter_value
    ELSE IF operator = "not_in" THEN actual_value[1] \notin filter_value
    ELSE FALSE

\* _passes_filters going on to the next filter when the value is missing
RECURSIVE Mutant_passes_filters(_, _, _, _, _)
Mutant_passes_filters(stock_data, financial_metrics, dividend_data, filters, today) ==
    IF Len(filters) = 0 THEN TRUE
    ELSE LET filter_obj == Head(filters)
             actual_value == _get_filter_value(filter_obj.criteria, stock_data,
                                               financial_metrics, dividend_data, today)
         IN  IF IsNone(actual_value)
             THEN Mutant_passes_filters(stock_data, financial_metrics, dividend_data,
                                        Tail(filters), today)
             ELSE IF ~_apply_filter(actual_value, filter_obj.value, filter_obj.operator)
                  THEN FALSE
                  ELSE Mutant_passes_filters(stock_data, financial_metrics, dividend_data,
                                             Tail(filters), today)

RECURSIVE _passes_filters(_, _, _, _, _)
_passes_filters(stock_data, financial_metrics, dividend_data, filters, today) ==
    IF Len(filters) = 0 THEN TRUE
    ELSE LET filter_obj == Head(filters)
             actual_value == _get_filter_value(filter_obj.criteria, stock_data,
                                               financial_metrics, dividend_data, today)
         IN  IF IsNone(actual_value) THEN FALSE
             ELSE IF ~_apply_filter(actual_value, filter_obj.value, filter_obj.operator)
                  THEN FALSE
                  ELSE _passes_filters(stock_data, financial_metrics, dividend_data,
                                       Tail(filters), today)

----------------------------------------------------------------------------
(* DividendScanner.scan_stocks *)

\* the result dict of one stock (name, current_price and scan_date, which
\* are copied or stamped and never read again, are left out)
Row(symbol, stock_data, financial_metrics, dividend_data, today) ==
    [symbol |-> symbol,
     sector |-> stock_data.sector,
     market_cap |-> stock_data.market_cap,
     dividend_yield |-> stock_data.dividend_yield,
     payout_ratio |-> stock_data.payout_ratio,
     pe_ratio |-> financial_metrics.pe_ratio,
     debt_to_equity |-> financial_metrics.debt_to_equity,
     return_on_equity |-> financial_metrics.return_on_equity,
     dividend_coverage_ratio |-> financial_metrics.dividend_coverage_ratio,
     dividend_health_score |->
         calculate_health_score(stock_data, financial_metrics, dividend_data),
     last_dividend_amount |-> _get_last_dividend_amount(dividend_data),
     dividend_growth_rate |-> _get_avg_dividend_growth(dividend_data),
     years_of_growth |-> _count_growth_years(dividend_data),
     next_ex_dividend_date |-> _estimate_next_ex_dividend(dividend_data, today)]

\* One answer of the data pipeline for one symbol: raises names the call
\* that raised ("none", "stock", "metrics" or "history"); stock_data is
\* None for an empty or missing snapshot and <<dict>> otherwise.
Answer(raises, stock_data, financial_metrics, dividend_data) ==
    [raises |-> raises, stock_data |-> stock_data,
     financial_metrics |-> financial_metrics, dividend_data |-> dividend_data]

\* the body of the for loop: the list results after this symbol
LoopBody(res, symbol, answer, filters, today) ==
    IF answer.raises # "none" THEN res                  \* except Exception: continue
    ELSE IF IsNone(answer.stock_data) THEN res          \* if not stock_data: continue
    ELSE IF _passes_filters(answer.stock_data[1], answer.financial_metrics,
                            answer.dividend_data, filters, today)
         THEN Append(res, Row(symbol, answer.stock_data[1], answer.financial_metrics,
                              answer.dividend_data, today))
         ELSE res

\* the value of column by in a row, None or <<fraction>>
SortKey(row, by) ==
    IF by = "dividend_yield" THEN
        IF IsNone(row.dividend_yield) THEN None
        ELSE <<[num |-> row.dividend_yield[1], den |-> 1]>>
    ELSE IF by = "dividend_health_score" THEN
        <<[num |-> row.dividend_health_score, den |-> 1]>>
    ELSE IF by = "years_of_growth" THEN
        <<[num |-> row.years_of_growth, den |-> 1]>>
    ELSE row.dividend_growth_rate

\* a <= b for fractions with positive denominators
FracLeq(a, b) == a.num * b.den <= b.num * a.den

\* rows i < j of a frame are in the order sort_values leaves them in:
\* by the key in the direction asked, missing keys last
InOrder(ki, kj, ascending) ==
    IF IsNone(ki) THEN IsNone(kj)
    ELSE IF IsNone(kj) THEN TRUE
    ELSE IF ascending THEN FracLeq(ki[1], kj[1]) ELSE FracLeq(kj[1], ki[1])

IsSorted(frame, by, ascending) ==
    \A i, j \in 1..Len(frame) :
        i < j => InOrder(SortKey(frame[i], by), SortKey(frame[j], by), ascending)

Orderings(n) == {p \in [1..n -> 1..n] : \A i, j \in 1..n : p[i] = p[j] => i = j}

\* df.sort_values(by=..., ascending=...): the sort is not stable, rows with
\* equal keys come in any order
sort_values(frame, by, ascending) ==
    {s \in {[k \in 1..Len(frame) |-> frame[p[k]]] : p \in Orderings(Len(frame))} :
        IsSorted(s, by, ascending)}

\* df.head(n): the first n rows, all but the last -n rows for a negative n
head(frame, n) ==
    IF n >= 0 THEN SubSeq(frame, 1, Min(n, Len(frame)))
    ELSE SubSeq(frame, 1, Max(0, Len(frame) + n))

\* ApplyLimit testing the limit against None instead of for truth
Mutant_ApplyLimit(frame, limit) ==
    IF ~IsNone(limit) THEN head(frame, limit[1]) ELSE frame

\* if config.limit: df = df.head(config.limit)
ApplyLimit(frame, limit) ==
    IF Truthy(limit) THEN head(frame, limit[1]) ELSE frame

\* what scan_stocks may return after the loop left res
Frames(res, cfg) ==
    IF Len(res) = 0 THEN {res}
    ELSE {ApplyLimit(s, cfg.limit) : s \in sort_values(res, cfg.sort_by, cfg.sort_order = "asc")}

----------------------------------------------------------------------------
(* The inputs of the scan: what the data pipeline may answer, and the      *)
(* configurations a caller may pass.                                       *)

DividendRecord(date, amount, rate) ==
    [ex_dividend_date |-> date, dividend_amount |-> amount, dividend_growth_rate |-> rate]

BaseStock ==
    [dividend_yield |-> Num(500), payout_ratio |-> Num(5000),
     market_cap |-> Num(5), sector |-> <<"Tech">>]

StockDom ==
    {[BaseStock EXCEPT !.dividend_yield = y, !.sector = s] :
        y \in {None, Num(300), Num(500)}, s \in {<<"Tech">>, <<"Energy">>}}

HealthyMetrics ==
    [pe_ratio |-> Num(18), debt_to_equity |-> Num(3000), return_on_equity |-> Num(2000),
     dividend_coverage_ratio |-> Num(25000), payout_ratio |-> None]

NoMetrics ==
    [pe_ratio |-> None, debt_to_equity |-> None, return_on_equity |-> None,
     dividend_coverage_ratio |-> None, payout_ratio |-> None]

\* two dividends, the second 20% above the first; the next one is due
TwoDividends == <<DividendRecord(80, 10, None), DividendRecord(95, 12, Num(20))>>

\* a first dividend: no growth rate yet
OneDividend == <<DividendRecord(95, 12, None)>>

Answers ==
    {Answer("none", <<s>>, HealthyMetrics, TwoDividends) : s \in StockDom}
    \cup {Answer("none", <<BaseStock>>, NoMetrics, TwoDividends),
          Answer("none", <<BaseStock>>, HealthyMetrics, OneDividend),
          Answer("none", <<BaseStock>>, HealthyMetrics, <<>>),
          Answer("none", None, NoMetrics, <<>>)}
    \cup {Answer(r, None, NoMetrics, <<>>) : r \in {"stock", "metrics", "history"}}

\* the filter lists tried: none, one, two, one with an operator that is not
\* documented, one with a criterion that is no member of ScanCriteria
FilterLists ==
    << <<>>,
       <<ScanFilter("MIN_DIVIDEND_YIELD", 400, "gte")>>,
       <<ScanFilter("SECTORS", {"Tech"}, "in"), ScanFilter("MAX_DIVIDEND_YIELD", 400, "lte")>>,
       <<ScanFilter("MIN_ROE", 1500, "gt")>>,
       <<ScanFilter("min_roe", 1500, "gte")>> >>

SortColumns == {"dividend_yield", "dividend_health_score"}

Limits == {None, Num(0), Num(1)}

ScanConfiguration(filters, sort_by, sort_order, limit) ==
    [filters |-> filters, sort_by |-> sort_by, sort_order |-> sort_order, limit |-> limit]

\* ScanConfiguration's defaults
DefaultConfiguration == ScanConfiguration(<<>>, "dividend_yield", "desc", None)

----------------------------------------------------------------------------
(* PreDefinedScans.  The name of a configuration is only logged and is     *)
(* left out; 1e9 of market cap is 1.                                       *)

high_yield_scanner ==
    ScanConfiguration(<<ScanFilter("MIN_DIVIDEND_YIELD", 400, "gte"),
                        ScanFilter("MAX_PAYOUT_RATIO", 8000, "lte"),
                        ScanFilter("MIN_MARKET_CAP", 1, "gte")>>,
                      "dividend_yield", "desc", None)

dividend_aristocrats ==
    ScanConfiguration(<<ScanFilter("MIN_YEARS_DIVIDEND_GROWTH", 25, "gte"),
                        ScanFilter("MAX_PAYOUT_RATIO", 7000, "lte")>>,
                      "years_of_growth", "desc", None)

\* safe_dividend_stocks asking for a payout ratio of at most 0.7
Mutant_safe_dividend_stocks ==
    ScanConfiguration(<<ScanFilter("MIN_DIVIDEND_YIELD", 200, "gte"),
                        ScanFilter("MAX_DIVIDEND_YIELD", 800, "lte"),
                        ScanFilter("MAX_PAYOUT_RATIO", 7000, "lte"),
                        ScanFilter("MIN_DIVIDEND_COVERAGE", 15000, "gte"),
                        ScanFilter("MAX_DEBT_TO_EQUITY", 5000, "lte"),
                        ScanFilter("MIN_ROE", 1500, "gte")>>,
                      "dividend_health_score", "desc", None)

safe_dividend_stocks ==
    ScanConfiguration(<<ScanFilter("MIN_DIVIDEND_YIELD", 200, "gte"),
                        ScanFilter("MAX_DIVIDEND_YIELD", 800, "lte"),
                        ScanFilter("MAX_PAYOUT_RATIO", 6000, "lte"),
                        ScanFilter("MIN_DIVIDEND_COVERAGE", 15000, "gte"),
                        ScanFilter("MAX_DEBT_TO_EQUITY", 5000, "lte"),
                        ScanFilter("MIN_ROE", 1500, "gte")>>,
                      "dividend_health_score", "desc", None)

growth_dividend_stocks ==
    ScanConfiguration(<<ScanFilter("MIN_YEARS_DIVIDEND_GROWTH", 5, "gte"),
                        ScanFilter("MAX_PAYOUT_RATIO", 7000, "lte"),
                        ScanFilter("MIN_ROE", 1200, "gte")>>,
                      "dividend_growth_rate", "desc", None)

sector_focused_scan(sectors) ==
    ScanConfiguration(<<ScanFilter("SECTORS", sectors, "in"),
                        ScanFilter("MIN_DIVIDEND_YIELD", 100, "gte"),
                        ScanFilter("MAX_PAYOUT_RATIO", 8000, "lte")>>,
                      "dividend_yield", "desc", None)

PresetMethods ==
    {"high_yield_scanner", "dividend_aristocrats", "safe_dividend_stocks",
     "growth_dividend_stocks", "sector_focused_scan"}

\* the configuration a caller gets from the method; the sector scan is
\* asked for the Tech sector
PreDefinedScans(method) ==
    CASE method = "high_yield_scanner" -> high_yield_scanner
      [] method = "dividend_aristocrats" -> dividend_aristocrats
      [] method = "safe_dividend_stocks" -> safe_dividend_stocks
      [] method = "growth_dividend_stocks" -> growth_dividend_stocks
      [] method = "sector_focused_scan" -> sector_focused_scan({"Tech"})

----------------------------------------------------------------------------
(* The scan as a state machine *)

ScanOff ==
    /\ sc_pc = "off"
    /\ symbols = <<>>
    /\ config = DefaultConfiguration
    /\ sc_preset = "none"
    /\ sc_i = 1
    /\ fetched = <<>>
    /\ results = <<>>
    /\ df = <<>>
    /\ now = 100

ScoreOff ==
    /\ hs_pc = "off"
    /\ hs_args = [stock_data |-> BaseStock, financial_metrics |-> NoMetrics,
                  dividend_data |-> <<>>]
    /\ hs_score = None

HistoryOff ==
    /\ hi_pc = "off"
    /\ hi_data = <<>>
    /\ hi_now = 100
    /\ hi_years = 0
    /\ hi_next = None

RiskOff ==
    /\ rk_pc = "off"
    /\ portfolio = <<>>
    /\ assessment = None

BacktestOff ==
    /\ bt_pc = "off"
    /\ rebalance_dates = 0
    /\ bt_date = 1
    /\ markets = <<>>
    /\ dividends = <<>>
    /\ cash = 0
    /\ bt_portfolio = <<>>
    /\ transactions = <<>>
    /\ portfolio_values = <<>>
    /\ portfolio_value = 0
    /\ target_allocation = None
    /\ bt_result = None

TokenOff ==
    /\ tk_pc = "off"
    /\ token_file = None
    /\ clock = 0
    /\ tk_call = None

InitScan ==
    /\ sc_pc = "idle"
    /\ symbols = <<>>
    /\ config = DefaultConfiguration
    /\ sc_preset = "none"
    /\ sc_i = 1
    /\ fetched = <<>>
    /\ results = <<>>
    /\ df = <<>>
    /\ now = 100
    /\ ScoreOff
    /\ HistoryOff
    /\ RiskOff
    /\ BacktestOff
    /\ TokenOff

\* scan_stocks(symbols, config) is called: results = []
ScanCall ==
    /\ sc_pc = "idle"
    /\ \E n \in 0..MaxSymbols : symbols' = [k \in 1..n |-> k]
    /\ \/ \E f \in 1..Len(FilterLists), by \in SortColumns,
             order \in {"asc", "desc"}, limit \in Limits :
             /\ config' = ScanConfiguration(FilterLists[f], by, order, limit)
             /\ sc_preset' = "none"
       \/ \E method \in PresetMethods :
             /\ config' = PreDefinedScans(method)
             /\ sc_preset' = method
    /\ sc_i' = 1
    /\ fetched' = <<>>
    /\ results' = <<>>
    /\ sc_pc' = "loop"
    /\ UNCHANGED <<df, now>>
    /\ UNCHANGED <<hsVars, hiVars, rkVars, btVars, tkVars>>

\* ProcessSymbol without the try: an exception of the data pipeline leaves
\* scan_stocks
Mutant_ProcessSymbol ==
    /\ sc_pc = "loop"
    /\ sc_i <= Len(symbols)
    /\ \E answer \in Answers :
          /\ fetched' = Append(fetched, answer)
          /\ results' = LoopBody(results, symbols[sc_i], answer, config.filters, now)
          /\ sc_pc' = IF answer.raises # "none" THEN "raised" ELSE sc_pc
    /\ sc_i' = sc_i + 1
    /\ UNCHANGED <<symbols, config, sc_preset, df, now>>
    /\ UNCHANGED <<hsVars, hiVars, rkVars, btVars, tkVars>>

\* one pass of the for loop: the three calls of the data pipeline for the
\* symbol, under the try, then the filters and the result dict
ProcessSymbol ==
    /\ sc_pc = "loop"
    /\ sc_i <= Len(symbols)
    /\ \E answer \in Answers :
          /\ fetched' = Append(fetched, answer)
          /\ results' = LoopBody(results, symbols[sc_i], answer, config.filters, now)
    /\ sc_i' = sc_i + 1
    /\ UNCHANGED <<sc_pc, symbols, config, sc_preset, df, now>>
    /\ UNCHANGED <<hsVars, hiVars, rkVars, btVars, tkVars>>

\* after the loop: DataFrame, sort, limit, return
ScanReturn ==
    /\ sc_pc = "loop"
    /\ sc_i > Len(symbols)
    /\ df' \in Frames(results, config)
    /\ sc_pc' = "returned"
    /\ UNCHANGED <<symbols, config, sc_preset, sc_i, fetched, results, now>>
    /\ UNCHANGED <<hsVars, hiVars, rkVars, btVars, tkVars>>

NextScan == ScanCall \/ ProcessSymbol \/ ScanReturn

SpecScan == InitScan /\ [][NextScan]_vars

----------------------------------------------------------------------------
(* calculate_health_score, called on arguments drawn from bounded sets *)

\* growth rates of up to MaxHist records: missing, negative or positive
RECURSIVE RateLists(_)
RateLists(n) ==
    IF n = 0 THEN {<<>>}
    ELSE RateLists(n - 1)
         \cup {Append(l, r) : l \in {x \in RateLists(n - 1) : Len(x) = n - 1},
                              r \in {None, Num(-2), Num(3)}}

\* a history with these growth rates, oldest first
HistoryOf(rates) == [k \in 1..Len(rates) |-> DividendRecord(k, 10, rates[k])]

\* health score inputs of the documented example: yield 0.04, payout 0.45,
\* growth rates 0.02, 0.03, 0.01, pe 18, debt/equity 0.3, roe 0.20, coverage 2.5
ScenarioB ==
    [stock_data |-> [BaseStock EXCEPT !.dividend_yield = Num(400), !.payout_ratio = Num(4500)],
     financial_metrics |->
         [pe_ratio |-> Num(18), debt_to_equity |-> Num(3000), return_on_equity |-> Num(2000),
          dividend_coverage_ratio |-> Num(25000), payout_ratio |-> None],
     dividend_data |-> HistoryOf(<<Num(2), Num(3), Num(1)>>)]

ScoreYields == {None, Num(150), Num(400), Num(700), Num(900), PctStr(4)}

ScorePayouts == {None, Num(0), Num(1000), Num(2500), Num(4500), Num(7000), Num(9000)}

ScoreMetrics ==
    {[pe_ratio |-> pe, debt_to_equity |-> de, return_on_equity |-> roe,
      dividend_coverage_ratio |-> cov, payout_ratio |-> pay] :
        pe \in {None, Num(18)}, de \in {None, Num(0), Num(3000)},
        roe \in {None, Num(2000)}, cov \in {None, Num(0), Num(25000)},
        pay \in {None, Num(4500)}}

ScoreArgs ==
    {[stock_data |-> [BaseStock EXCEPT !.dividend_yield = y, !.payout_ratio = p],
      financial_metrics |-> m,
      dividend_data |-> HistoryOf(rates)] :
        y \in ScoreYields, p \in ScorePayouts, m \in ScoreMetrics,
        rates \in RateLists(MaxHist)}
    \cup {ScenarioB}

InitScore ==
    /\ hs_pc = "args"
    /\ hs_args \in ScoreArgs
    /\ hs_score = None
    /\ ScanOff
    /\ HistoryOff
    /\ RiskOff
    /\ BacktestOff
    /\ TokenOff

\* the call returns; it rebinds local names only, the arguments stay as they are
HealthScoreCall ==
    /\ hs_pc = "args"
    /\ hs_score' = Num(calculate_health_score(hs_args.stock_data, hs_args.financial_metrics,
                                              hs_args.dividend_data))
    /\ hs_pc' = "returned"
    /\ UNCHANGED hs_args
    /\ UNCHANGED <<scVars, hiVars, rkVars, btVars, tkVars>>

NextScore == HealthScoreCall

SpecScore == InitScore /\ [][NextScore]_vars

----------------------------------------------------------------------------
(* The derived history fields of a result row, computed on histories drawn *)
(* from bounded sets: up to MaxHist records with distinct ex-dates, in any *)
(* order, each growth rate missing, negative or positive.                  *)

HistDates == {85, 90, 95, 100}

HistRates == {None, Num(-2), Num(3)}

HistNows == {95, 100, 105, 110}

DatesOf(dividend_data) == {dividend_data[k].ex_dividend_date : k \in 1..Len(dividend_data)}

RECURSIVE Histories(_)
Histories(n) ==
    IF n = 0 THEN {<<>>}
    ELSE Histories(n - 1)
         \cup UNION {{Append(h, DividendRecord(d, 10, r)) :
                         d \in HistDates \ DatesOf(h), r \in HistRates} :
                     h \in {x \in Histories(n - 1) : Len(x) = n - 1}}

InitHistory ==
    /\ hi_pc = "args"
    /\ hi_data \in Histories(MaxHist)
    /\ hi_now \in HistNows
    /\ hi_years = 0
    /\ hi_next = None
    /\ ScanOff
    /\ ScoreOff
    /\ RiskOff
    /\ BacktestOff
    /\ TokenOff

\* 'years_of_growth': self._count_growth_years(dividend_data),
\* 'next_ex_dividend_date': self._estimate_next_ex_dividend(dividend_data)
DeriveHistoryFields ==
    /\ hi_pc = "args"
    /\ hi_years' = _count_growth_years(hi_data)
    /\ hi_next' = _estimate_next_ex_dividend(hi_data, hi_now)
    /\ hi_pc' = "returned"
    /\ UNCHANGED <<hi_data, hi_now>>
    /\ UNCHANGED <<scVars, hsVars, rkVars, btVars, tkVars>>

NextHistory == DeriveHistoryFields

SpecHistory == InitHistory /\ [][NextHistory]_vars

----------------------------------------------------------------------------
(* Properties of the scan *)

\* the data of a symbol was retrieved: no call raised, the snapshot is not empty
Retrievable(answer) == answer.raises = "none" /\ ~IsNone(answer.stock_data)

RowSymbols(frame) == {frame[k].symbol : k \in 1..Len(frame)}

\* the comparison a documented operator stands for
Compares(actual, value, operator) ==
    CASE operator = "gte" -> actual >= value
      [] operator = "lte" -> actual <= value
      [] operator = "eq" -> actual = value
      [] operator = "in" -> actual \in value
      [] operator = "not_in" -> actual \notin value
      [] OTHER -> FALSE

\* the retrieved data satisfies the filter: the extracted value is there and
\* compares as asked
Satisfies(answer, filter_obj) ==
    LET actual == _get_filter_value(filter_obj.criteria, answer.stock_data[1],
                                    answer.financial_metrics, answer.dividend_data, now)
    IN  ~IsNone(actual) /\ Compares(actual[1], filter_obj.value, filter_obj.operator)

NoFalsePositive(frame) ==
    \A k \in 1..Len(frame) :
        /\ frame[k].symbol \in 1..Len(fetched)
        /\ Retrievable(fetched[frame[k].symbol])
        /\ \A f \in 1..Len(config.filters) :
               Satisfies(fetched[frame[k].symbol], config.filters[f])

\* C1: every row that scan_stocks collects and returns belongs to a symbol
\* whose retrieved data satisfies every filter of config.filters: the value
\* extracted for the filter is not null and compares true with the filter
\* value (no false positives).
C1_NoFalsePositives == NoFalsePositive(results) /\ NoFalsePositive(df)

\* a scan with filters returned rows
C1_Witness ==
    /\ sc_pc = "returned"
    /\ Len(config.filters) = 2
    /\ Len(df) >= 1

\* the filter is malformed: its operator is not documented, or its criterion
\* is no member of ScanCriteria
Malformed(filter_obj) ==
    filter_obj.operator \notin Operators \/ filter_obj.criteria \notin ScanCriteria

\* C2: a filter with an operator other than gte, lte, eq, in, not_in, or with
\* an unrecognised criterion, makes the scan fail fast: once a retrieved stock
\* has been put to such a filter the scan has raised to its caller, it neither
\* goes on nor returns.
C2_FailFast ==
    (/\ Len(config.filters) > 0
     /\ Malformed(config.filters[1])
     /\ \E k \in 1..Len(fetched) : Retrievable(fetched[k]))
    => sc_pc = "raised"

\* the scan as the loop runs it on an input without the symbols whose
\* retrieval raised: the rows for kept symbols among 1..n, in input order
RECURSIVE RowsWithoutFailing(_)
RowsWithoutFailing(n) ==
    IF n = 0 THEN <<>>
    ELSE IF fetched[n].raises # "none" THEN RowsWithoutFailing(n - 1)
         ELSE LoopBody(RowsWithoutFailing(n - 1), symbols[n], fetched[n], config.filters, now)

\* C3: a symbol whose retrieval raises does not make the scan raise and has
\* no row; every symbol is processed, and the rows collected and returned are
\* those of a scan of the input without the failing symbols.
C3_PartialFailure ==
    /\ sc_pc # "raised"
    /\ \A k \in 1..Len(fetched) :
           fetched[k].raises # "none" => k \notin RowSymbols(results) \cup RowSymbols(df)
    /\ results = RowsWithoutFailing(Len(fetched))
    /\ sc_pc = "returned" =>
           /\ Len(fetched) = Len(symbols)
           /\ df \in Frames(RowsWithoutFailing(Len(symbols)), config)

\* a scan returned a row although the retrieval of an earlier symbol raised
C3_Witness ==
    /\ sc_pc = "returned"
    /\ Len(fetched) = 2
    /\ fetched[1].raises # "none"
    /\ RowSymbols(df) = {2}

\* the field of the retrieved data that a criterion reads
RequiredField(criteria, answer) ==
    CASE criteria \in {"MIN_DIVIDEND_YIELD", "MAX_DIVIDEND_YIELD"} ->
             answer.stock_data[1].dividend_yield
      [] criteria \in {"MIN_MARKET_CAP", "MAX_MARKET_CAP"} -> answer.stock_data[1].market_cap
      [] criteria = "MAX_PAYOUT_RATIO" -> answer.stock_data[1].payout_ratio
      [] criteria = "SECTORS" -> answer.stock_data[1].sector
      [] criteria = "MIN_DIVIDEND_COVERAGE" -> answer.financial_metrics.dividend_coverage_ratio
      [] criteria \in {"MIN_PE_RATIO", "MAX_PE_RATIO"} -> answer.financial_metrics.pe_ratio
      [] criteria = "MIN_ROE" -> answer.financial_metrics.return_on_equity
      [] criteria = "MAX_DEBT_TO_EQUITY" -> answer.financial_metrics.debt_to_equity

FieldCriteria ==
    ScanCriteria \ {"MIN_YEARS_DIVIDEND_GROWTH", "EX_DIVIDEND_WITHIN_DAYS"}

\* a filter of the configuration needs a field that is null for this stock
MissingField(answer) ==
    /\ Retrievable(answer)
    /\ \E f \in 1..Len(config.filters) :
           /\ config.filters[f].criteria \in FieldCriteria
           /\ IsNone(RequiredField(config.filters[f].criteria, answer))

\* C4: a stock for which the field some filter needs is null has no row,
\* whatever the operator and the filter value are, and the scan does not raise.
C4_MissingFieldExcludes ==
    /\ sc_pc # "raised"
    /\ \A k \in 1..Len(fetched) :
           MissingField(fetched[k]) => k \notin RowSymbols(results) \cup RowSymbols(df)

\* a scan returned after a stock lacked the field its filter needs
C4_Witness ==
    /\ sc_pc = "returned"
    /\ \E k \in 1..Len(fetched) : MissingField(fetched[k])
    /\ \E k \in 1..Len(fetched) : k \in RowSymbols(df)

RetrievableSymbols == {k \in 1..Len(fetched) : Retrievable(fetched[k])}

OneRowEach(frame) == \A i, j \in 1..Len(frame) : frame[i].symbol = frame[j].symbol => i = j

\* C5 as stated: with an empty filter list the returned frame has exactly one
\* row for every input symbol with a retrievable snapshot, sorted per config.
C5_AllRetrievableReturned ==
    (sc_pc = "returned" /\ Len(config.filters) = 0) =>
        /\ RowSymbols(df) = RetrievableSymbols
        /\ OneRowEach(df)
        /\ IsSorted(df, config.sort_by, config.sort_order = "asc")

\* C5 (amended): with an empty filter list the scan collects exactly one row
\* for every input symbol with a retrievable snapshot and no row for any
\* other symbol, without raising; it returns these rows sorted per config,
\* all of them when config.limit is None or 0 and the first config.limit of
\* them when config.limit is positive.
C5_AllRetrievableUpToLimit ==
    (sc_pc = "returned" /\ Len(config.filters) = 0) =>
        /\ RowSymbols(results) = RetrievableSymbols
        /\ OneRowEach(results)
        /\ RowSymbols(df) \subseteq RetrievableSymbols
        /\ OneRowEach(df)
        /\ IsSorted(df, config.sort_by, config.sort_order = "asc")
        /\ Len(df) = IF IsNone(config.limit) \/ config.limit[1] = 0
                     THEN Cardinality(RetrievableSymbols)
                     ELSE Min(config.limit[1], Cardinality(RetrievableSymbols))
        /\ \A i \in 1..Len(df), j \in 1..Len(results) :
               results[j].symbol \notin RowSymbols(df) =>
                   InOrder(SortKey(df[i], config.sort_by),
                           SortKey(results[j], config.sort_by),
                           config.sort_order = "asc")

\* a scan without filters met a symbol without snapshot and returned a row
C5_Witness ==
    /\ sc_pc = "returned"
    /\ Len(config.filters) = 0
    /\ \E k \in 1..Len(fetched) : fetched[k].raises = "none" /\ IsNone(fetched[k].stock_data)
    /\ Len(df) >= 1

\* C6: the returned rows are ordered by config.sort_by in the direction of
\* config.sort_order, and when config.limit is set, to any integer, 0
\* included, there are no more than config.limit of them.
C6_SortedAndLimited ==
    sc_pc = "returned" =>
        /\ IsSorted(df, config.sort_by, config.sort_order = "asc")
        /\ ~IsNone(config.limit) => Len(df) <= config.limit[1]

\* the retrieved history has exactly one record, whose growth rate is null
OneRecord(answer) ==
    /\ Retrievable(answer)
    /\ Len(answer.dividend_data) = 1
    /\ IsNone(answer.dividend_data[1].dividend_growth_rate)

InsufficientHistory(frame, k) ==
    \A i \in 1..Len(frame) :
        frame[i].symbol = k =>
            frame[i].years_of_growth = 0 /\ IsNone(frame[i].next_ex_dividend_date)

\* C14: for a stock whose dividend history has exactly one record, with a
\* null growth rate, the scan does not raise; the stock's row, collected
\* whenever the stock satisfies the filters, has 0 years of growth and no
\* estimated next ex-dividend date.
C14_OneRecordHistory ==
    /\ sc_pc # "raised"
    /\ \A k \in 1..Len(fetched) :
           OneRecord(fetched[k]) =>
               /\ InsufficientHistory(results, k)
               /\ InsufficientHistory(df, k)
               /\ (\A f \in 1..Len(config.filters) : Satisfies(fetched[k], config.filters[f]))
                      => k \in RowSymbols(results)

\* a scan returned the row of a stock with a history of one record
C14_Witness ==
    /\ sc_pc = "returned"
    /\ \E k \in 1..Len(fetched) : OneRecord(fetched[k]) /\ k \in RowSymbols(df)

FilterSet(cfg) == {cfg.filters[k] : k \in 1..Len(cfg.filters)}

\* the configuration has exactly these filters, this sort column, descending
\* order and no limit
IsPreset(cfg, filters, sort_by) ==
    /\ FilterSet(cfg) = filters
    /\ Len(cfg.filters) = Cardinality(filters)
    /\ cfg.sort_by = sort_by
    /\ cfg.sort_order = "desc"
    /\ IsNone(cfg.limit)

----------------------------------------------------------------------------
(* Properties of the health score *)

Returned == hs_pc = "returned"

\* C7: for all inputs, missing fields and an empty dividend history
\* included, the score returned lies in [0, 100]; it is the sum of five
\* components that lie in [0, 20], [0, 25], [0, 20], [0, 20] and [0, 15],
\* clamped at 100.
C7_ScoreBounded ==
    Returned =>
        LET y == YieldScore(hs_args.stock_data)
            p == PayoutScore(hs_args.stock_data, hs_args.financial_metrics)
            g == GrowthScore(hs_args.dividend_data)
            f == FinancialHealth(hs_args.financial_metrics)
            c == CoverageScore(hs_args.financial_metrics)
        IN  /\ 0 <= hs_score[1] /\ hs_score[1] <= Points(100)
            /\ 0 <= y /\ y <= Points(20)
            /\ 0 <= p /\ p <= Points(25)
            /\ 0 <= g /\ g <= Points(20)
            /\ 0 <= f /\ f <= Points(20)
            /\ 0 <= c /\ c <= Points(15)
            /\ hs_score[1] = Min(y + p + g + f + c, Points(100))

\* the score of a stock with every field missing and no dividend history
C7_Witness ==
    /\ Returned
    /\ IsNone(hs_args.stock_data.dividend_yield)
    /\ IsNone(hs_args.stock_data.payout_ratio)
    /\ hs_args.financial_metrics = NoMetrics
    /\ hs_args.dividend_data = <<>>
    /\ hs_score = Num(0)

\* the score of the same call with the payout ratio of the stock set to q
ScoreAtPayout(q) ==
    calculate_health_score([hs_args.stock_data EXCEPT !.payout_ratio = Num(q)],
                           hs_args.financial_metrics, hs_args.dividend_data)

PayoutRatios == {0, 1000, 1999, 2000, 2500, 2999, 3000, 4500, 6000, 6001, 7000, 8000, 8001, 9000, 15000}

\* C8: with all other inputs fixed the score does not decrease as the payout
\* ratio moves toward [30%, 60%]: it is non-decreasing in the payout ratio up
\* to 0.3 and non-increasing in it from 0.6 on.
C8_PayoutMonotone ==
    (Returned /\ Len(hs_args.stock_data.payout_ratio) = 1) =>
        LET p == hs_args.stock_data.payout_ratio[1]
        IN  \A q \in PayoutRatios :
                /\ (p <= q /\ q <= 3000) => hs_score[1] <= ScoreAtPayout(q)
                /\ (q <= p /\ p <= 3000) => ScoreAtPayout(q) <= hs_score[1]
                /\ (6000 <= p /\ p <= q) => hs_score[1] >= ScoreAtPayout(q)
                /\ (6000 <= q /\ q <= p) => ScoreAtPayout(q) >= hs_score[1]

\* C10: for yield 0.04, payout 0.45, growth rates 0.02, 0.03, 0.01, pe 18,
\* debt/equity 0.3, roe 0.20 and coverage 2.5 the score returned is exactly
\* 100, the sum of 20, 25, 20, 20 and 15.
C10_ScenarioB ==
    (Returned /\ hs_args = ScenarioB) =>
        /\ hs_score = Num(Points(100))
        /\ YieldScore(hs_args.stock_data) = Points(20)
        /\ PayoutScore(hs_args.stock_data, hs_args.financial_metrics) = Points(25)
        /\ GrowthScore(hs_args.dividend_data) = Points(20)
        /\ FinancialHealth(hs_args.financial_metrics) = Points(20)
        /\ CoverageScore(hs_args.financial_metrics) = Points(15)

\* the call on the inputs of the example returned
C10_Witness == Returned /\ hs_args = ScenarioB

\* C11: the financial-health component is the sum of three independent
\* bonuses, 7 for a pe ratio in [10, 25], 7 for a debt/equity of at most 0.5
\* and 6 for a return on equity of at least 0.15, each awarded whenever its
\* input is present and meets the condition, a present debt/equity of 0
\* included, and 0 only when its input is missing or fails the condition.
C11_FinancialBonuses ==
    Returned =>
        LET m == hs_args.financial_metrics
            pe == IF ~IsNone(m.pe_ratio) /\ 10 <= m.pe_ratio[1] /\ m.pe_ratio[1] <= 25
                  THEN Points(7) ELSE 0
            de == IF ~IsNone(m.debt_to_equity) /\ m.debt_to_equity[1] <= 5000
                  THEN Points(7) ELSE 0
            roe == IF ~IsNone(m.return_on_equity) /\ m.return_on_equity[1] >= 1500
                   THEN Points(6) ELSE 0
        IN  FinancialHealth(m) = pe + de + roe

\* C12: the coverage component is 15 for a coverage ratio of at least 2.0,
\* 12 from 1.5, 8 from 1.2, 3 for every other present value, a present 0
\* included, and 0 only when the coverage ratio is missing.
C12_CoverageBrackets ==
    Returned =>
        LET c == hs_args.financial_metrics.dividend_coverage_ratio
        IN  CoverageScore(hs_args.financial_metrics) =
                IF IsNone(c) THEN 0
                ELSE IF c[1] >= 20000 THEN Points(15)
                ELSE IF c[1] >= 15000 THEN Points(12)
                ELSE IF c[1] >= 12000 THEN Points(8)
                ELSE Points(3)

----------------------------------------------------------------------------
(* Properties of the derived history fields *)

Derived == hi_pc = "returned"

\* the streak as stated: from the last entry backwards, the entries that are
\* strictly positive, up to the first that is non-positive or null
RECURSIVE StatedStreak(_)
StatedStreak(dividend_data) ==
    LET n == Len(dividend_data)
        rate == dividend_data[n].dividend_growth_rate
    IN  IF n = 0 THEN 0
        ELSE IF ~IsNone(rate) /\ rate[1] > 0
             THEN 1 + StatedStreak(SubSeq(dividend_data, 1, n - 1))
             ELSE 0

\* C13: consecutive_growth_years is the number of trailing growth-rate
\* entries, read most-recent-first, that are strictly positive; the count
\* stops at the first entry that is non-positive or null, so a null growth
\* rate between positive ones ends the streak.
C13_StreakStopsAtNull == Derived => hi_years = StatedStreak(hi_data)

MaxOf(S) == CHOOSE x \in S : \A y \in S : y <= x

\* C15: the estimated next ex-dividend date is last + (last - previous),
\* last and previous being the two latest ex-dates of the history whatever
\* the order of its records; it is returned only when strictly later than
\* the current time, and is null otherwise and for fewer than two records.
C15_NextExDividend ==
    Derived =>
        IF Len(hi_data) < 2 THEN hi_next = None
        ELSE LET last == MaxOf(DatesOf(hi_data))
                 previous == MaxOf(DatesOf(hi_data) \ {last})
                 projected == last + (last - previous)
             IN  hi_next = IF projected > hi_now THEN Num(projected) ELSE None

\* a date was estimated from a history whose latest records come last
C15_Witness ==
    /\ Derived
    /\ Len(hi_data) = MaxHist
    /\ hi_data[1].ex_dividend_date < hi_data[2].ex_dividend_date
    /\ hi_data[2].ex_dividend_date < hi_data[3].ex_dividend_date
    /\ ~IsNone(hi_next)

----------------------------------------------------------------------------
(* DividendRiskManager.assess_portfolio_risk (risk_management.py).         *)
(* allocation_percentage and predicted_yield are held in tenths of a       *)
(* percent (25% is 250, a yield of 12 is 120), sustainability in points,   *)
(* the risk score and its factors in thirds of a point, so that            *)
(* 40 - diversification_score/2 is exact.  A key that a holding lacks is   *)
(* None.                                                                   *)

\* most head holdings of a portfolio, see Portfolios
MaxHoldings == 2

Thirds(p) == p * 3

\* holding.get(key, default)
HoldingGet(value, default) == IF IsNone(value) THEN default ELSE value[1]

RECURSIVE SeqSum(_)
SeqSum(xs) == IF Len(xs) = 0 THEN 0 ELSE Head(xs) + SeqSum(Tail(xs))

\* max(xs) and min(xs) of a non-empty list
SeqMax(xs) == CHOOSE x \in {xs[k] : k \in 1..Len(xs)} : \A k \in 1..Len(xs) : xs[k] <= x

SeqMin(xs) == CHOOSE x \in {xs[k] : k \in 1..Len(xs)} : \A k \in 1..Len(xs) : x <= xs[k]

\* f"{x:.1f}%" of x tenths of a percent: "100.0%" is <<100, 0, "%">>
Fmt1(tenths) == <<tenths \div 10, tenths % 10, "%">>

\* concentration_risk testing the maximum with >= instead of >
Mutant_concentration_risk(max_concentration) ==
    IF max_concentration >= 250 THEN "HIGH"
    ELSE IF max_concentration >= 150 THEN "MEDIUM"
    ELSE "LOW"

concentration_risk(max_concentration) ==
    IF max_concentration > 250 THEN "HIGH"
    ELSE IF max_concentration > 150 THEN "MEDIUM"
    ELSE "LOW"

\* min(100, (num_holdings / 15) * 100), in thirds of a point
diversification_score(num_holdings) == Min(Thirds(100), 20 * num_holdings)

\* f"{diversification_score:.1f}%": 200n/3 tenths rounded to the nearest
DiversificationText(num_holdings) == Fmt1(Min(1000, (400 * num_holdings + 3) \div 6))

\* sustainability_risk taking 70 for low and 50 for medium risk already
Mutant_sustainability_risk(min_sustainability) ==
    IF min_sustainability >= 70 THEN "LOW"
    ELSE IF min_sustainability >= 50 THEN "MEDIUM"
    ELSE "HIGH"

sustainability_risk(min_sustainability) ==
    IF min_sustainability > 70 THEN "LOW"
    ELSE IF min_sustainability > 50 THEN "MEDIUM"
    ELSE "HIGH"

\* avg_yield > 8 for avg_yield = np.mean(yields)
yield_risk(yields) ==
    IF SeqMax(yields) > 120 THEN "HIGH"
    ELSE IF SeqSum(yields) > 80 * Len(yields) THEN "MEDIUM"
    ELSE "LOW"

\* risk_factors without the max(0, ...) of the diversification factor
Mutant_risk_factors(concentration, diversification, sustainability, yield) ==
    [concentration |-> IF concentration = "HIGH" THEN Thirds(40)
                       ELSE IF concentration = "MEDIUM" THEN Thirds(20) ELSE Thirds(10),
     diversification |-> Thirds(40) - diversification \div 2,
     sustainability |-> IF sustainability = "HIGH" THEN Thirds(30)
                        ELSE IF sustainability = "MEDIUM" THEN Thirds(15) ELSE Thirds(5),
     yield |-> IF yield = "HIGH" THEN Thirds(25)
               ELSE IF yield = "MEDIUM" THEN Thirds(12) ELSE Thirds(5)]

\* diversification_score is an even number of thirds, the half is exact
risk_factors(concentration, diversification, sustainability, yield) ==
    [concentration |-> IF concentration = "HIGH" THEN Thirds(40)
                       ELSE IF concentration = "MEDIUM" THEN Thirds(20) ELSE Thirds(10),
     diversification |-> Max(0, Thirds(40) - diversification \div 2),
     sustainability |-> IF sustainability = "HIGH" THEN Thirds(30)
                        ELSE IF sustainability = "MEDIUM" THEN Thirds(15) ELSE Thirds(5),
     yield |-> IF yield = "HIGH" THEN Thirds(25)
               ELSE IF yield = "MEDIUM" THEN Thirds(12) ELSE Thirds(5)]

\* the rating, without the coloured dot it starts with
overall_risk(overall_risk_score) ==
    IF overall_risk_score > Thirds(80) THEN "HIGH RISK"
    ELSE IF overall_risk_score > Thirds(50) THEN "MEDIUM RISK"
    ELSE "LOW RISK"

\* max(portfolio, key=lambda x: x['allocation_percentage']): the first of
\* the holdings with the largest percentage.  A holding is named by its
\* position in the portfolio.
max_holding(holdings) ==
    CHOOSE k \in 1..Len(holdings) :
        /\ \A j \in 1..Len(holdings) :
               holdings[j].allocation_percentage <= holdings[k].allocation_percentage
        /\ \A j \in 1..(k - 1) :
               holdings[j].allocation_percentage < holdings[k].allocation_percentage

\* the positions of the holdings that meet the test, the first two of them
\* ([h for h in portfolio if ...][:2])
FirstTwo(meets) ==
    LET found == SelectSeq([k \in 1..Len(meets) |-> k], LAMBDA k : meets[k])
    IN  SubSeq(found, 1, Min(2, Len(found)))

Recommendation(factor, symbol, shown) ==
    [factor |-> factor, symbol |-> symbol, shown |-> shown]

\* "Portfolio risk profile is well-balanced"
Balanced == Recommendation("balanced", 0, <<>>)

\* _generate_risk_recommendations listing the holdings with a
\* sustainability below 50 instead of 60
Mutant_generate_risk_recommendations(factors, holdings) ==
    LET low_sustainability ==
            FirstTwo([k \in 1..Len(holdings) |->
                         HoldingGet(holdings[k].sustainability, 70) < 50])
        high_yield ==
            FirstTwo([k \in 1..Len(holdings) |->
                         HoldingGet(holdings[k].predicted_yield, 40) > 100])
        recommendations ==
            (IF factors.concentration > Thirds(30)
             THEN <<Recommendation("concentration", max_holding(holdings),
                        Fmt1(holdings[max_holding(holdings)].allocation_percentage))>>
             ELSE <<>>)
            \o (IF factors.diversification > Thirds(20)
                THEN <<Recommendation("diversification", 0, <<Len(holdings), "stocks">>)>>
                ELSE <<>>)
            \o (IF factors.sustainability > Thirds(20)
                THEN [i \in 1..Len(low_sustainability) |->
                         Recommendation("sustainability", low_sustainability[i],
                             Fmt1(10 * HoldingGet(holdings[low_sustainability[i]].sustainability, 0)))]
                ELSE <<>>)
            \o (IF factors.yield > Thirds(20)
                THEN [i \in 1..Len(high_yield) |->
                         Recommendation("yield", high_yield[i],
                             Fmt1(HoldingGet(holdings[high_yield[i]].predicted_yield, 0)))]
                ELSE <<>>)
    IN  IF Len(recommendations) = 0 THEN <<Balanced>> ELSE recommendations

_generate_risk_recommendations(factors, holdings) ==
    LET low_sustainability ==
            FirstTwo([k \in 1..Len(holdings) |->
                         HoldingGet(holdings[k].sustainability, 70) < 60])
        high_yield ==
            FirstTwo([k \in 1..Len(holdings) |->
                         HoldingGet(holdings[k].predicted_yield, 40) > 100])
        recommendations ==
            (IF factors.concentration > Thirds(30)
             THEN <<Recommendation("concentration", max_holding(holdings),
                        Fmt1(holdings[max_holding(holdings)].allocation_percentage))>>
             ELSE <<>>)
            \o (IF factors.diversification > Thirds(20)
                THEN <<Recommendation("diversification", 0, <<Len(holdings), "stocks">>)>>
                ELSE <<>>)
            \o (IF factors.sustainability > Thirds(20)
                THEN [i \in 1..Len(low_sustainability) |->
                         Recommendation("sustainability", low_sustainability[i],
                             Fmt1(10 * HoldingGet(holdings[low_sustainability[i]].sustainability, 0)))]
                ELSE <<>>)
            \o (IF factors.yield > Thirds(20)
                THEN [i \in 1..Len(high_yield) |->
                         Recommendation("yield", high_yield[i],
                             Fmt1(HoldingGet(holdings[high_yield[i]].predicted_yield, 0)))]
                ELSE <<>>)
    IN  IF Len(recommendations) = 0 THEN <<Balanced>> ELSE recommendations

num_simulations == 10000

\* int((1 - confidence) * num_simulations), the confidence in percent
var_index(confidence) == ((100 - confidence) * num_simulations) \div 100

\* One simulation: the sorted list portfolio_values, whose first cut entries
\* are the total after a day with return down and whose other entries are
\* the total after a day with return up (returns in percent).  The returns
\* are sums of normal draws: every list of num_simulations numbers can come.
Simulation(cut, down, up) == [cut |-> cut, down |-> down, up |-> up]

\* portfolio_values[index] after the sort, index counted from 0
ValueAt(run, index, total_investment) ==
    LET daily_return == IF index < run.cut THEN run.down ELSE run.up
    IN  (total_investment * (100 + daily_return)) \div 100

total_allocation(holdings) ==
    SeqSum([k \in 1..Len(holdings) |-> holdings[k].allocation_amount])

_calculate_var(holdings, confidence, run) ==
    LET total_investment == total_allocation(holdings)
        var_value == total_investment - ValueAt(run, var_index(confidence), total_investment)
    IN  Max(0, var_value)

\* f"Rs{x:,.0f}" of a whole amount
Rupees(amount) == <<"Rs", amount>>

\* f"{(var / total_value) * 100:.2f}%": hundredths of a percent, rounded to
\* the nearest
LossText(var, total_value) ==
    LET hundredths == (2 * var * 10000 + total_value) \div (2 * total_value)
    IN  <<hundredths \div 100, hundredths % 100, "%">>

\* the dict returned for a non-empty portfolio: the rating, the score, the
\* labels and the rendered maximum concentration and diversification score
\* of risk_breakdown (its two rendered averages are left out), the value
\* at risk of two simulations, and the recommendations
assess_portfolio_risk(holdings, run_95, run_99) ==
    LET total_value == total_allocation(holdings)
        var_95 == _calculate_var(holdings, 95, run_95)
        var_99 == _calculate_var(holdings, 99, run_99)
        concentrations == [k \in 1..Len(holdings) |-> holdings[k].allocation_percentage]
        max_concentration == SeqMax(concentrations)
        num_holdings == Len(holdings)
        sustainability_scores ==
            [k \in 1..Len(holdings) |-> HoldingGet(holdings[k].sustainability, 70)]
        min_sustainability == SeqMin(sustainability_scores)
        yields == [k \in 1..Len(holdings) |-> HoldingGet(holdings[k].predicted_yield, 40)]
        factors == risk_factors(concentration_risk(max_concentration),
                                diversification_score(num_holdings),
                                sustainability_risk(min_sustainability),
                                yield_risk(yields))
        overall_risk_score == factors.concentration + factors.diversification
                              + factors.sustainability + factors.yield
    IN  [overall_risk |-> overall_risk(overall_risk_score),
         risk_score |-> overall_risk_score,
         risk_breakdown |->
             [concentration_risk |-> concentration_risk(max_concentration),
              max_concentration |-> Fmt1(max_concentration),
              diversification_score |-> DiversificationText(num_holdings),
              sustainability_risk |-> sustainability_risk(min_sustainability),
              yield_risk |-> yield_risk(yields)],
         var_analysis |->
             [var_95 |-> Rupees(var_95),
              var_99 |-> Rupees(var_99),
              max_1day_loss_95 |-> LossText(var_95, total_value),
              max_1day_loss_99 |-> LossText(var_99, total_value)],
         recommendations |-> _generate_risk_recommendations(factors, holdings)]

----------------------------------------------------------------------------
(* assess_portfolio_risk as a state machine, on portfolios drawn from a    *)
(* bounded set: up to MaxHoldings holdings of any kind, then a number of   *)
(* small holdings of one kind, so that portfolios of one to sixteen        *)
(* holdings are assessed.  The percentages of a portfolio need not add up  *)
(* to 100: the code never adds them.                                       *)

\* a holding of a portfolio of 10000: 25% are 2500
Holding(percentage, yield, sustainability) ==
    [allocation_amount |-> 10 * percentage, allocation_percentage |-> percentage,
     predicted_yield |-> yield, sustainability |-> sustainability]

Holdings ==
    {Holding(p, y, s) : p \in {150, 250, 1000}, y \in {None, Num(120), Num(130)},
                        s \in {None, Num(50), Num(80)}}
    \cup {Holding(150, None, Num(40))}

SmallHolding == Holding(50, Num(40), Num(80))

SmallCounts == {0, 5, 14}

RECURSIVE HoldingLists(_)
HoldingLists(n) ==
    IF n = 0 THEN {<<>>}
    ELSE HoldingLists(n - 1)
         \cup {Append(l, h) : l \in {x \in HoldingLists(n - 1) : Len(x) = n - 1},
                              h \in Holdings}

Portfolios ==
    {l \o [k \in 1..c |-> SmallHolding] : l \in HoldingLists(MaxHoldings), c \in SmallCounts}

\* simulations in which the day with the 10% loss comes at none of the
\* indices read, at that of the 99% value only, and at both
Simulations == {Simulation(cut, -10, 10) : cut \in {0, 101, 501}}

InitRisk ==
    /\ rk_pc = "args"
    /\ portfolio \in Portfolios
    /\ assessment = None
    /\ ScanOff
    /\ ScoreOff
    /\ HistoryOff
    /\ BacktestOff
    /\ TokenOff

\* the call returns its dict, each of its two calls of _calculate_var
\* running a simulation of its own; max() of the empty list raises
\* ValueError
AssessPortfolioRisk ==
    /\ rk_pc = "args"
    /\ IF Len(portfolio) = 0
       THEN rk_pc' = "raised" /\ assessment' = assessment
       ELSE /\ rk_pc' = "returned"
            /\ \E run_95, run_99 \in Simulations :
                   assessment' = <<assess_portfolio_risk(portfolio, run_95, run_99)>>
    /\ UNCHANGED portfolio
    /\ UNCHANGED <<scVars, hsVars, hiVars, btVars, tkVars>>

NextRisk == AssessPortfolioRisk

SpecRisk == InitRisk /\ [][NextRisk]_vars

----------------------------------------------------------------------------
(* Properties of the risk assessment *)

Assessed == rk_pc = "returned"

Percentages == {portfolio[k].allocation_percentage : k \in 1..Len(portfolio)}

\* C17: concentration_risk is HIGH if the allocation_percentage of some
\* holding is above 25, MEDIUM if the largest is above 15 and at most 25,
\* LOW otherwise; a portfolio of a single holding at 100% is reported with
\* concentration_risk HIGH and max_concentration "100.0%".
C17_ConcentrationRisk ==
    Assessed =>
        LET breakdown == assessment[1].risk_breakdown
        IN  /\ breakdown.concentration_risk =
                   IF \E p \in Percentages : p > 250 THEN "HIGH"
                   ELSE IF \E p \in Percentages : p > 150 THEN "MEDIUM"
                   ELSE "LOW"
            /\ (Len(portfolio) = 1 /\ portfolio[1].allocation_percentage = 1000) =>
                   /\ breakdown.concentration_risk = "HIGH"
                   /\ breakdown.max_concentration = <<100, 0, "%">>

\* a portfolio of a single holding at 100% was assessed
C17_Witness ==
    /\ Assessed
    /\ Len(portfolio) = 1
    /\ portfolio[1].allocation_percentage = 1000

\* the sustainability scores of the holdings, 70 for a holding without one
Sustainabilities ==
    {HoldingGet(portfolio[k].sustainability, 70) : k \in 1..Len(portfolio)}

MinSustainability == CHOOSE m \in Sustainabilities : \A x \in Sustainabilities : m <= x

\* C18 as stated: with m the least sustainability score of the holdings,
\* sustainability_risk is HIGH if m < 50, MEDIUM if 50 <= m < 70 and LOW
\* if m >= 70.
C18_SustainabilityRisk ==
    Assessed =>
        assessment[1].risk_breakdown.sustainability_risk =
            IF MinSustainability < 50 THEN "HIGH"
            ELSE IF MinSustainability < 70 THEN "MEDIUM"
            ELSE "LOW"

\* C18 (amended): with m the least sustainability score of the holdings, a
\* holding without one counting 70, sustainability_risk is LOW if m > 70,
\* MEDIUM if 50 < m <= 70 and HIGH if m <= 50.
C18_SustainabilityRiskStrict ==
    Assessed =>
        assessment[1].risk_breakdown.sustainability_risk =
            IF MinSustainability <= 50 THEN "HIGH"
            ELSE IF MinSustainability <= 70 THEN "MEDIUM"
            ELSE "LOW"

\* a portfolio whose least sustainability score is exactly 50 was assessed
C18_Witness ==
    /\ Assessed
    /\ MinSustainability = 50
    /\ assessment[1].risk_breakdown.sustainability_risk = "HIGH"

PredictedYield(k) == HoldingGet(portfolio[k].predicted_yield, 40)

RECURSIVE WeightedYieldSum(_)
WeightedYieldSum(n) ==
    IF n = 0 THEN 0
    ELSE portfolio[n].allocation_percentage * PredictedYield(n) + WeightedYieldSum(n - 1)

RECURSIVE PercentageSum(_)
PercentageSum(n) ==
    IF n = 0 THEN 0 ELSE portfolio[n].allocation_percentage + PercentageSum(n - 1)

\* C19: yield_risk is HIGH if the predicted_yield of some holding is above
\* 12; otherwise MEDIUM if the average predicted yield, each holding
\* weighted by its allocation percentage, is above 8; otherwise LOW.
C19_YieldRisk ==
    Assessed =>
        assessment[1].risk_breakdown.yield_risk =
            IF \E k \in 1..Len(portfolio) : PredictedYield(k) > 120 THEN "HIGH"
            ELSE IF WeightedYieldSum(Len(portfolio)) > 80 * PercentageSum(Len(portfolio))
                 THEN "MEDIUM"
            ELSE "LOW"

\* the sub-score of a label
SubScore(label, high, medium, low) ==
    IF label = "HIGH" THEN Thirds(high)
    ELSE IF label = "MEDIUM" THEN Thirds(medium)
    ELSE Thirds(low)

\* C20: risk_score is the sum of four sub-scores: 40, 20 or 10 for a HIGH,
\* MEDIUM or LOW concentration risk, max(0, 40 - diversification_score/2)
\* with diversification_score = min(100, holdings/15*100), 30, 15 or 5 for
\* the sustainability risk, 25, 12 or 5 for the yield risk; the rating is
\* HIGH iff risk_score > 80, MEDIUM iff 50 < risk_score <= 80, LOW iff
\* risk_score <= 50.
C20_RiskScore ==
    Assessed =>
        LET breakdown == assessment[1].risk_breakdown
            n == Len(portfolio)
            \* thirds of a point: min(100, n/15*100) is min(300, 20n) thirds
            diversification == IF 20 * n >= 300 THEN 300 ELSE 20 * n
            \* 40 - diversification/2, in sixths to take the half
            sixths == 6 * 40 - diversification
            score == assessment[1].risk_score
        IN  /\ 2 * score = 2 * SubScore(breakdown.concentration_risk, 40, 20, 10)
                          + (IF sixths > 0 THEN sixths ELSE 0)
                          + 2 * SubScore(breakdown.sustainability_risk, 30, 15, 5)
                          + 2 * SubScore(breakdown.yield_risk, 25, 12, 5)
            /\ assessment[1].overall_risk = "HIGH RISK" <=> score > Thirds(80)
            /\ assessment[1].overall_risk = "MEDIUM RISK" <=>
                   (Thirds(50) < score /\ score <= Thirds(80))
            /\ assessment[1].overall_risk = "LOW RISK" <=> score <= Thirds(50)

\* a portfolio of at least fifteen holdings was rated with a score of
\* exactly 50
C20_Witness ==
    /\ Assessed
    /\ Len(portfolio) >= 15
    /\ assessment[1].risk_score = Thirds(50)
    /\ assessment[1].overall_risk = "LOW RISK"

\* C30: for every non-empty portfolio the risk_score returned lies between
\* 0 and 100, the scale it is presented on.
C30_RiskScoreRange ==
    Assessed =>
        /\ 0 <= assessment[1].risk_score
        /\ assessment[1].risk_score <= Thirds(100)

\* the sub-scores as stated, in sixths of a point
SubScores ==
    LET breakdown == assessment[1].risk_breakdown
        n == Len(portfolio)
    IN  [concentration |-> 2 * SubScore(breakdown.concentration_risk, 40, 20, 10),
         diversification |-> IF 20 * n >= 240 THEN 0 ELSE 240 - 20 * n,
         sustainability |-> 2 * SubScore(breakdown.sustainability_risk, 30, 15, 5),
         yield |-> 2 * SubScore(breakdown.yield_risk, 25, 12, 5)]

\* the factors whose sub-score is above its concerning threshold
Concerning ==
    {f \in {"concentration"} : SubScores.concentration > 6 * 30}
    \cup {f \in {"diversification", "sustainability", "yield"} : SubScores[f] > 6 * 20}

\* C22: the list of recommendations is never empty; it is the single
\* "balanced" acknowledgment exactly when no sub-score is above its
\* concerning threshold (concentration > 30, diversification > 20,
\* sustainability > 20, yield > 20), and whenever a sub-score is above its
\* threshold the list has at least one recommendation for that factor.
C22_Recommendations ==
    Assessed =>
        LET recommendations == assessment[1].recommendations
        IN  /\ Len(recommendations) >= 1
            /\ recommendations = <<Balanced>> <=> Concerning = {}
            /\ \A f \in Concerning :
                   \E i \in 1..Len(recommendations) : recommendations[i].factor = f

\* a portfolio was found well-balanced
C22_Witness ==
    /\ Assessed
    /\ assessment[1].recommendations = <<Balanced>>

\* C21: within one call on a non-empty portfolio, the value at risk
\* reported at 99% confidence is at least the one reported at 95%, whatever
\* the random draws are.
C21_VarOrdered ==
    Assessed =>
        assessment[1].var_analysis.var_99[2] >= assessment[1].var_analysis.var_95[2]

----------------------------------------------------------------------------
(* DividendBacktester.backtest_strategy (risk_management.py).  Rebalance   *)
(* dates are counted 1, 2, ...; prices, amounts and cash are whole         *)
(* numbers, yields are in 1/10000.  The generated historical data is read  *)
(* at the rebalance dates (the latest price and yield of every symbol) and *)
(* after the loop (the dividend payments): it is drawn when it is read.    *)

\* most rebalance dates of a backtest
MaxDates == 3

\* the capital a backtest starts with
initial_capital == 10

\* strategy_config.get('min_yield', 0.03)
min_yield == 300

\* the symbols of the strategy, in the order groupby('symbol') leaves them in
SymbolOrder == <<"A", "B">>

InSeq(x, xs) == \E i \in 1..Len(xs) : xs[i] = x

\* current_data[current_data['dividend_yield'] >= min_yield]
qualified_stocks(current_data) ==
    SelectSeq(SymbolOrder, LAMBDA sym : current_data.dividend_yield[sym] >= min_yield)

\* the sum of shares * current_price over the held symbols that qualify
RECURSIVE QualifiedValue(_, _, _)
QualifiedValue(held, qualified, current_data) ==
    IF Len(held) = 0 THEN 0
    ELSE (IF InSeq(Head(held).symbol, qualified)
          THEN Head(held).shares * current_data.price[Head(held).symbol]
          ELSE 0)
         + QualifiedValue(Tail(held), qualified, current_data)

Transaction(date, symbol, action, shares, price) ==
    [date |-> date, symbol |-> symbol, action |-> action, shares |-> shares, price |-> price]

\* the SELL transactions of the loop over portfolio.items()
RECURSIVE SellHoldings(_, _, _, _)
SellHoldings(held, qualified, current_data, date) ==
    IF Len(held) = 0 THEN <<>>
    ELSE (IF InSeq(Head(held).symbol, qualified)
          THEN <<Transaction(date, Head(held).symbol, "SELL", Head(held).shares,
                             current_data.price[Head(held).symbol])>>
          ELSE <<>>)
         \o SellHoldings(Tail(held), qualified, current_data, date)

\* shares_to_buy rounding up instead of down
Mutant_shares_to_buy(target, price) ==
    (target.num + target.den * price - 1) \div (target.den * price)

\* int(target_allocation / stock['price']), the target a fraction
shares_to_buy(target, price) == target.num \div (target.den * price)

\* the loop over qualified_stocks.iterrows() from row i on; st holds cash,
\* portfolio and transactions
RECURSIVE BuyHoldings(_, _, _, _, _, _)
BuyHoldings(st, qualified, i, target, current_data, date) ==
    IF i > Len(qualified) THEN st
    ELSE LET price == current_data.price[qualified[i]]
             shares == shares_to_buy(target, price)
             cost == shares * price
             bought == [cash |-> st.cash - cost,
                        portfolio |-> Append(st.portfolio,
                                             [symbol |-> qualified[i], shares |-> shares]),
                        transactions |-> Append(st.transactions,
                            Transaction(date, qualified[i], "BUY", shares, price))]
         IN  BuyHoldings(IF cost <= st.cash THEN bought ELSE st,
                         qualified, i + 1, target, current_data, date)

\* the body of the loop at a date where some symbol qualifies: the locals
\* after it
Rebalance(money, held, log, date, current_data) ==
    LET qualified == qualified_stocks(current_data)
        value == money + QualifiedValue(held, qualified, current_data)
        target == [num |-> value, den |-> Len(qualified)]
        sold == [cash |-> money + QualifiedValue(held, qualified, current_data),
                 portfolio |-> <<>>,
                 transactions |-> log \o SellHoldings(held, qualified, current_data, date)]
        after == BuyHoldings(sold, qualified, 1, target, current_data, date)
        current_portfolio_value ==
            after.cash + QualifiedValue(after.portfolio, qualified, current_data)
    IN  [cash |-> after.cash,
         portfolio |-> after.portfolio,
         transactions |-> after.transactions,
         portfolio_value |-> value,
         target_allocation |-> <<target>>,
         record |-> [date |-> date, portfolio_value |-> current_portfolio_value,
                     cash |-> after.cash, invested |-> current_portfolio_value - after.cash]]

\* the rows of historical_data with a dividend, in the order of the frame:
\* by symbol, then by date.  A row dated after rebalance date k and not
\* after the next one has after = k; after = 0 is up to the first date.
DividendRow(symbol, after, amount) ==
    [symbol |-> symbol, after |-> after, dividend_amount |-> amount]

DividendRows(amount, dates) ==
    [i \in 1..(Len(SymbolOrder) * (dates + 1)) |->
        LET sym == SymbolOrder[((i - 1) \div (dates + 1)) + 1]
        IN  DividendRow(sym, (i - 1) % (dates + 1), amount[sym])]

\* the sum of shares * dividend_amount over the rows of the symbol that are
\* dated after buy_date and have a dividend
RECURSIVE DividendsAfter(_, _, _, _)
DividendsAfter(rows, symbol, shares, buy_date) ==
    IF Len(rows) = 0 THEN 0
    ELSE (IF /\ Head(rows).symbol = symbol
             /\ Head(rows).after >= buy_date
             /\ Head(rows).dividend_amount > 0
          THEN shares * Head(rows).dividend_amount
          ELSE 0)
         + DividendsAfter(Tail(rows), symbol, shares, buy_date)

\* dividends_received counting, for a purchase, the dividends up to the
\* next rebalance date only
RECURSIVE Mutant_dividends_received(_, _)
Mutant_dividends_received(log, rows) ==
    IF Len(log) = 0 THEN 0
    ELSE (IF Head(log).action = "BUY"
          THEN DividendsAfter(SelectSeq(rows, LAMBDA r : r.after = Head(log).date),
                              Head(log).symbol, Head(log).shares, Head(log).date)
          ELSE 0)
         + Mutant_dividends_received(Tail(log), rows)

\* total_dividends after the loop over the transactions
RECURSIVE dividends_received(_, _)
dividends_received(log, rows) ==
    IF Len(log) = 0 THEN 0
    ELSE (IF Head(log).action = "BUY"
          THEN DividendsAfter(rows, Head(log).symbol, Head(log).shares, Head(log).date)
          ELSE 0)
         + dividends_received(Tail(log), rows)

\* transactions[-10:]
LastTen(log) == SubSeq(log, Max(1, Len(log) - 9), Len(log))

\* the dict returned; the annualized return, the Sharpe ratio and the
\* maximum drawdown, statistics of portfolio_values that nothing else
\* reads, are left out.  Ratios are fractions.
BacktestResult(values, log, rows) ==
    IF Len(values) = 0 THEN [success |-> FALSE]
    ELSE LET final_value == values[Len(values)].portfolio_value
             total_dividends == dividends_received(log, rows)
         IN  [success |-> TRUE,
              initial_capital |-> initial_capital,
              final_portfolio_value |-> final_value,
              total_dividends_received |-> total_dividends,
              total_return_amount |-> final_value + total_dividends - initial_capital,
              total_return_percentage |->
                  [num |-> (final_value + total_dividends - initial_capital) * 100,
                   den |-> initial_capital],
              dividend_yield_on_investment |->
                  [num |-> total_dividends * 100, den |-> initial_capital],
              number_of_transactions |-> Len(log),
              portfolio_evolution |-> values,
              transactions |-> LastTen(log)]

----------------------------------------------------------------------------
(* The backtest as a state machine *)

\* what the generated data may show at a rebalance date: the price of A is
\* 2 or 3, that of B is 5, each yield is below or at min_yield
Markets ==
    {[price |-> ("A" :> pa @@ "B" :> 5), dividend_yield |-> ("A" :> ya @@ "B" :> yb)] :
        pa \in {2, 3}, ya \in {200, 300}, yb \in {200, 300}}

\* the dividend each symbol pays, once between two rebalance dates
DividendAmounts == {("A" :> a @@ "B" :> b) : a \in {1, 2}, b \in {1, 2}}

InitBacktest ==
    /\ bt_pc = "loop"
    /\ rebalance_dates \in 0..MaxDates
    /\ bt_date = 1
    /\ markets = <<>>
    /\ dividends = <<>>
    /\ cash = initial_capital
    /\ bt_portfolio = <<>>
    /\ transactions = <<>>
    /\ portfolio_values = <<>>
    /\ portfolio_value = 0
    /\ target_allocation = None
    /\ bt_result = None
    /\ ScanOff
    /\ ScoreOff
    /\ HistoryOff
    /\ RiskOff
    /\ TokenOff

\* RebalanceStep logging a portfolio value at a date where no symbol qualifies
Mutant_RebalanceStep ==
    /\ bt_pc = "loop"
    /\ bt_date <= rebalance_dates
    /\ \E current_data \in Markets :
          /\ markets' = Append(markets, current_data)
          /\ IF Len(qualified_stocks(current_data)) = 0
             THEN /\ portfolio_values' = Append(portfolio_values,
                         [date |-> bt_date, portfolio_value |-> cash, cash |-> cash,
                          invested |-> 0])
                  /\ UNCHANGED <<cash, bt_portfolio, transactions,
                                 portfolio_value, target_allocation>>
             ELSE LET after == Rebalance(cash, bt_portfolio, transactions, bt_date, current_data)
                  IN  /\ cash' = after.cash
                      /\ bt_portfolio' = after.portfolio
                      /\ transactions' = after.transactions
                      /\ portfolio_values' = Append(portfolio_values, after.record)
                      /\ portfolio_value' = after.portfolio_value
                      /\ target_allocation' = after.target_allocation
    /\ bt_date' = bt_date + 1
    /\ UNCHANGED <<bt_pc, rebalance_dates, dividends, bt_result>>
    /\ UNCHANGED <<scVars, hsVars, hiVars, rkVars, tkVars>>

\* one pass of the loop over rebalance_dates
RebalanceStep ==
    /\ bt_pc = "loop"
    /\ bt_date <= rebalance_dates
    /\ \E current_data \in Markets :
          /\ markets' = Append(markets, current_data)
          /\ IF Len(qualified_stocks(current_data)) = 0
             THEN UNCHANGED <<cash, bt_portfolio, transactions, portfolio_values,
                              portfolio_value, target_allocation>>
             ELSE LET after == Rebalance(cash, bt_portfolio, transactions, bt_date, current_data)
                  IN  /\ cash' = after.cash
                      /\ bt_portfolio' = after.portfolio
                      /\ transactions' = after.transactions
                      /\ portfolio_values' = Append(portfolio_values, after.record)
                      /\ portfolio_value' = after.portfolio_value
                      /\ target_allocation' = after.target_allocation
    /\ bt_date' = bt_date + 1
    /\ UNCHANGED <<bt_pc, rebalance_dates, dividends, bt_result>>
    /\ UNCHANGED <<scVars, hsVars, hiVars, rkVars, tkVars>>

\* after the loop: the dividends received, the performance, the return
BacktestReturn ==
    /\ bt_pc = "loop"
    /\ bt_date > rebalance_dates
    /\ \E amount \in DividendAmounts :
          /\ dividends' = DividendRows(amount, rebalance_dates)
          /\ bt_result' = <<BacktestResult(portfolio_values, transactions,
                                           DividendRows(amount, rebalance_dates))>>
    /\ bt_pc' = "returned"
    /\ UNCHANGED <<rebalance_dates, bt_date, markets, cash, bt_portfolio, transactions,
                   portfolio_values, portfolio_value, target_allocation>>
    /\ UNCHANGED <<scVars, hsVars, hiVars, rkVars, tkVars>>

NextBacktest == RebalanceStep \/ BacktestReturn

SpecBacktest == InitBacktest /\ [][NextBacktest]_vars

----------------------------------------------------------------------------
(* Properties of the backtest *)

\* the step is the pass of the loop for a rebalance date
AtRebalanceDate == bt_pc = "loop" /\ Len(markets') = Len(markets) + 1

\* the symbols whose trailing yield is at least min_yield in this data
Qualifying(current_data) ==
    {SymbolOrder[i] : i \in {j \in 1..Len(SymbolOrder) :
                                current_data.dividend_yield[SymbolOrder[j]] >= min_yield}}

RECURSIVE SumFn(_, _)
SumFn(f, S) ==
    IF S = {} THEN 0
    ELSE LET x == CHOOSE y \in S : TRUE IN f[x] + SumFn(f, S \ {x})

\* the worth of all the holdings at the prices of this data
MarkToMarket(held, current_data) ==
    SumFn([i \in 1..Len(held) |-> held[i].shares * current_data.price[held[i].symbol]],
          1..Len(held))

\* C23: at a rebalance date where no symbol has a trailing yield of at
\* least min_yield the backtester does nothing: cash and holdings stay as
\* the previous rebalance left them, and neither a transaction nor a
\* portfolio value is logged for the date.
C23_NoOpRebalance ==
    [][(AtRebalanceDate /\ Qualifying(markets'[Len(markets')]) = {}) =>
           /\ cash' = cash
           /\ bt_portfolio' = bt_portfolio
           /\ transactions' = transactions
           /\ portfolio_values' = portfolio_values]_vars

\* a date was skipped with shares held
C23_Witness ==
    /\ Len(markets) >= 2
    /\ Qualifying(markets[Len(markets)]) = {}
    /\ Len(bt_portfolio) >= 1
    /\ Len(portfolio_values) < Len(markets)

\* the transactions logged by this step
Logged == SubSeq(transactions', Len(transactions) + 1, Len(transactions'))

BoughtCost ==
    SumFn([i \in 1..Len(Logged) |-> Logged[i].shares * Logged[i].price],
          {i \in 1..Len(Logged) : Logged[i].action = "BUY"})

\* C24: at every rebalance date with a qualifying symbol all the holdings,
\* those of symbols that no longer qualify included, are sold at their
\* current prices, each with a SELL transaction logged, before anything is
\* bought: no share is dropped without its value being added to cash.
C24_AllHoldingsLiquidated ==
    [][(AtRebalanceDate /\ Qualifying(markets'[Len(markets')]) # {}) =>
           LET current_data == markets'[Len(markets')]
           IN  /\ \A h \in 1..Len(bt_portfolio) :
                      \E i \in 1..Len(Logged) :
                          Logged[i] = Transaction(bt_date, bt_portfolio[h].symbol, "SELL",
                                                  bt_portfolio[h].shares,
                                                  current_data.price[bt_portfolio[h].symbol])
               /\ cash' + BoughtCost = cash + MarkToMarket(bt_portfolio, current_data)]_vars

\* C25: the portfolio value computed at a rebalance date is cash plus the
\* worth, at the latest prices, of every holding, whether its symbol
\* qualifies or not; the equal-weight target is that value divided by the
\* number of qualifying symbols.
C25_PortfolioValue ==
    [][(AtRebalanceDate /\ Qualifying(markets'[Len(markets')]) # {}) =>
           LET current_data == markets'[Len(markets')]
               value == cash + MarkToMarket(bt_portfolio, current_data)
           IN  /\ portfolio_value' = value
               /\ target_allocation'[1].num * Cardinality(Qualifying(current_data))
                      = value * target_allocation'[1].den]_vars

\* C26: every purchase of a rebalance is a whole number of shares that
\* costs no more than the equal allocation of a symbol and no more than
\* the cash there is; so cash is never negative, only qualifying symbols
\* are held after the rebalance, and what is not spent stays in cash.
C26_BuyWithinAllocation ==
    [][(AtRebalanceDate /\ Qualifying(markets'[Len(markets')]) # {}) =>
           LET current_data == markets'[Len(markets')]
               buys == {i \in 1..Len(Logged) : Logged[i].action = "BUY"}
               sells == {i \in 1..Len(Logged) : Logged[i].action = "SELL"}
               spent == [i \in 1..Len(Logged) |-> Logged[i].shares * Logged[i].price]
               proceeds == SumFn(spent, sells)
               target == target_allocation'[1]
           IN  /\ \A i \in buys :
                      /\ Logged[i].shares \in Nat
                      /\ Logged[i].date = bt_date
                      /\ Logged[i].price = current_data.price[Logged[i].symbol]
                      /\ Logged[i].shares * Logged[i].price * target.den <= target.num
                      \* the cash at that moment: what the later purchases
                      \* and the end of the rebalance still find
                      /\ Logged[i].shares * Logged[i].price <=
                             cash' + SumFn(spent, {j \in buys : j >= i})
                      /\ \A j \in sells : j < i
               /\ cash' >= 0
               /\ cash' = cash + proceeds - BoughtCost
               /\ \A h \in 1..Len(bt_portfolio') :
                      /\ bt_portfolio'[h].symbol \in Qualifying(current_data)
                      /\ \E i \in buys : /\ Logged[i].symbol = bt_portfolio'[h].symbol
                                           /\ Logged[i].shares = bt_portfolio'[h].shares]_vars

\* a rebalance bought shares and left cash unspent
C26_Witness ==
    /\ Len(bt_portfolio) = 2
    /\ bt_portfolio[1].shares >= 1
    /\ bt_portfolio[2].shares >= 1
    /\ cash >= 1

\* C27: total_dividends is the sum, over every BUY transaction of the run,
\* of shares times dividend_amount over every dividend payment of the
\* symbol dated after the purchase, later sales and rebalances
\* notwithstanding; total_return is (final_value + total_dividends -
\* initial_capital) / initial_capital.
C27_DividendsAndReturn ==
    (bt_pc = "returned" /\ bt_result[1].success) =>
        LET final_value == portfolio_values[Len(portfolio_values)].portfolio_value
            paid == [t \in 1..Len(transactions) |->
                SumFn([r \in 1..Len(dividends) |->
                          transactions[t].shares * dividends[r].dividend_amount],
                      {r \in 1..Len(dividends) :
                          /\ dividends[r].symbol = transactions[t].symbol
                          /\ dividends[r].after >= transactions[t].date})]
            total_dividends ==
                SumFn(paid, {t \in 1..Len(transactions) : transactions[t].action = "BUY"})
            percentage == bt_result[1].total_return_percentage
        IN  /\ bt_result[1].total_dividends_received = total_dividends
            /\ bt_result[1].final_portfolio_value = final_value
            /\ percentage.num * initial_capital
                   = 100 * (final_value + total_dividends - initial_capital) * percentage.den

\* a backtest returned after it bought a symbol, sold it and bought it again
C27_Witness ==
    /\ bt_pc = "returned"
    /\ bt_result[1].success
    /\ bt_result[1].total_dividends_received > 0
    /\ \E i, j \in 1..Len(transactions) :
           /\ transactions[i].action = "BUY"
           /\ transactions[j].action = "BUY"
           /\ transactions[i].symbol = transactions[j].symbol
           /\ transactions[i].date < transactions[j].date

----------------------------------------------------------------------------
(* The FYERS token store (src/src/api/fyers_adapter.py).  The token file   *)
(* is the dict it holds: access_token, refresh_token, expires_at, each     *)
(* None when the file or the key is missing.  A token is <<s>> for the     *)
(* string s.  Times are whole seconds since the epoch.                     *)

\* int(time.time()) when the first operation runs; durations are small
\* against it
StartTime == 100

\* the seconds that pass in a behaviour, at most
MaxElapsed == 2

\* bool(x) of an optional string
NonEmpty(x) == ~IsNone(x) /\ x[1] # ""

\* a or b, of optional strings
TokenOr(a, b) == IF NonEmpty(a) THEN a ELSE b

\* _read_token_file() when there is no file: {}
NoTokens == [access_token |-> None, refresh_token |-> None, expires_at |-> None]

\* _get_stored_tokens()
_get_stored_tokens(file) == <<file.access_token, file.refresh_token, file.expires_at>>

\* the file after save_token(access_token)
save_token(file, access_token) ==
    [file EXCEPT !.access_token = access_token, !.expires_at = None, !.refresh_token = None]

\* the file after save_token_full(access_token, refresh_token, expires_in)
save_token_full(access_token, refresh_token, expires_in, time) ==
    [access_token |-> access_token,
     refresh_token |-> refresh_token,
     expires_at |-> IF Truthy(expires_in) THEN Num(time + expires_in[1]) ELSE None]

\* a dict of the server's answer; a key that is missing is None
Body(access_token, accessToken, refresh_token, refreshToken, expires_in, expires) ==
    [access_token |-> access_token, accessToken |-> accessToken,
     refresh_token |-> refresh_token, refreshToken |-> refreshToken,
     expires_in |-> expires_in, expires |-> expires]

NoBody == Body(None, None, None, None, None, None)

\* what requests.post answers: resp.json() raises unless json; data is the
\* dict under the 'data' key, None without one; top is the rest of the dict
Response(json, top, data) == [json |-> json, top |-> top, data |-> data]

\* the parsing without the step into the 'data' key
Mutant_Unwrap(resp) == resp.top

\* if isinstance(data, dict) and 'data' in data and isinstance(data['data'], dict)
Unwrap(resp) == IF IsNone(resp.data) THEN resp.top ELSE resp.data[1]

Raised(file) == [raised |-> TRUE, file |-> file, value |-> None]

\* the request made and the answer parsed and saved: what exchange_auth_code
\* and refresh_with_refresh_token share.  configured: _app_hash() finds the
\* client id and the secret.
ParseAndSave(file, time, configured, resp) ==
    IF ~configured \/ ~resp.json THEN Raised(file)
    ELSE LET data == Unwrap(resp)
             access == TokenOr(data.access_token, data.accessToken)
             refresh == TokenOr(data.refresh_token, data.refreshToken)
             expires_in == PyOr(data.expires_in, data.expires)
         IN  IF ~NonEmpty(access) THEN Raised(file)
             ELSE [raised |-> FALSE,
                   file |-> save_token_full(access, refresh, expires_in, time),
                   value |-> <<data>>]

exchange_auth_code(file, time, configured, resp) ==
    ParseAndSave(file, time, configured, resp)

refresh_with_refresh_token(file, time, configured, resp) ==
    ParseAndSave(file, time, configured, resp)

ReturnToken(file, token, refreshed) ==
    [raised |-> FALSE, file |-> file, value |-> token, refreshed |-> refreshed]

\* _get_valid_access_token trusting a token until the second it expires
Mutant_get_valid_access_token(file, time, configured, resp) ==
    LET stored == _get_stored_tokens(file)
        access == stored[1]
        refresh == stored[2]
        expires_at == stored[3]
    IN  IF NonEmpty(access) /\ Truthy(expires_at) /\ expires_at[1] > time
        THEN ReturnToken(file, access, FALSE)
        ELSE IF NonEmpty(access) /\ ~Truthy(expires_at)
        THEN ReturnToken(file, access, FALSE)
        ELSE IF NonEmpty(refresh)
        THEN LET info == refresh_with_refresh_token(file, time, configured, resp)
             IN  IF info.raised
                 THEN [raised |-> TRUE, file |-> info.file, value |-> None, refreshed |-> TRUE]
                 ELSE ReturnToken(info.file,
                               TokenOr(info.value[1].access_token, info.value[1].accessToken),
                               TRUE)
        ELSE [raised |-> TRUE, file |-> file, value |-> None, refreshed |-> FALSE]

\* _get_valid_access_token(); every expires_at the operations store is an
\* int, so isinstance(expires_at, (int, float)) holds of a stored one
_get_valid_access_token(file, time, configured, resp) ==
    LET stored == _get_stored_tokens(file)
        access == stored[1]
        refresh == stored[2]
        expires_at == stored[3]
    IN  IF NonEmpty(access) /\ Truthy(expires_at) /\ expires_at[1] - 30 > time
        THEN ReturnToken(file, access, FALSE)
        ELSE IF NonEmpty(access) /\ ~Truthy(expires_at)
        THEN ReturnToken(file, access, FALSE)
        ELSE IF NonEmpty(refresh)
        THEN LET info == refresh_with_refresh_token(file, time, configured, resp)
             IN  IF info.raised
                 THEN [raised |-> TRUE, file |-> info.file, value |-> None, refreshed |-> TRUE]
                 ELSE ReturnToken(info.file,
                               TokenOr(info.value[1].access_token, info.value[1].accessToken),
                               TRUE)
        ELSE [raised |-> TRUE, file |-> file, value |-> None, refreshed |-> FALSE]

----------------------------------------------------------------------------
(* The token store as a state machine *)

\* the lifetimes a caller or the server gives: none, zero, in the past,
\* exactly the margin, a second more
Lifetimes == {None, Num(0), Num(-10), Num(30), Num(31)}

\* the answers of the server: with snake_case keys one without an access
\* token and every combination with one, at top level or under 'data'; a
\* full one with camelCase keys; one that is not JSON; one with a token at
\* top level and a 'data' dict without
Responses ==
    {Response(TRUE, Body(<<"new_access">>, None, refresh, None, expires_in, None), None) :
        refresh \in {None, <<"new_refresh">>}, expires_in \in Lifetimes}
    \cup {Response(TRUE, NoBody, <<Body(<<"new_access">>, None, refresh, None, expires_in, None)>>) :
        refresh \in {None, <<"new_refresh">>}, expires_in \in Lifetimes}
    \cup {Response(TRUE, Body(<<"">>, <<"new_access">>, None, <<"new_refresh">>, None, expires), None) :
        expires \in {None, Num(31)}}
    \cup {Response(TRUE, Body(None, None, <<"new_refresh">>, None, Num(31), None), None),
          Response(TRUE, NoBody, <<NoBody>>),
          Response(FALSE, NoBody, None),
          Response(TRUE, Body(<<"new_access">>, None, <<"new_refresh">>, None, Num(31), None),
                   <<NoBody>>)}

\* a request: whether _app_hash() finds the client id and the secret, and
\* the answer of the server (none is asked for without them)
Requests ==
    {[configured |-> TRUE, resp |-> resp] : resp \in Responses}
    \cup {[configured |-> FALSE, resp |-> Response(FALSE, NoBody, None)]}

\* the operation made no request
NoRequest == [configured |-> TRUE, resp |-> Response(FALSE, NoBody, None)]

\* what the last operation was, did and found: the file and the time it
\* started with, the request it made (refreshed: it made one for a refresh)
Call(op, file, time, req, out) ==
    <<[op |-> op, stored |-> file, time |-> time, req |-> req,
       raised |-> out.raised, value |-> out.value, refreshed |-> out.refreshed]>>

InitToken ==
    /\ tk_pc = "ready"
    /\ token_file = NoTokens
    /\ clock = StartTime
    /\ tk_call = None
    /\ ScanOff
    /\ ScoreOff
    /\ HistoryOff
    /\ RiskOff
    /\ BacktestOff

OthersUnchanged == UNCHANGED <<scVars, hsVars, hiVars, rkVars, btVars>>

SaveToken ==
    /\ tk_pc = "ready"
    /\ \E access_token \in {<<"old_access">>, <<"">>} :
          /\ token_file' = save_token(token_file, access_token)
          /\ tk_call' = Call("save_token", token_file, clock, NoRequest,
                             [raised |-> FALSE, value |-> None, refreshed |-> FALSE])
    /\ UNCHANGED <<tk_pc, clock>>
    /\ OthersUnchanged

SaveTokenFull ==
    /\ tk_pc = "ready"
    /\ \E refresh_token \in {None, <<"refresh_tok">>}, expires_in \in Lifetimes :
          /\ token_file' = save_token_full(<<"old_access">>, refresh_token, expires_in, clock)
          /\ tk_call' = Call("save_token_full", token_file, clock, NoRequest,
                             [raised |-> FALSE, value |-> None, refreshed |-> FALSE])
    /\ UNCHANGED <<tk_pc, clock>>
    /\ OthersUnchanged

ExchangeAuthCode ==
    /\ tk_pc = "ready"
    /\ \E req \in Requests :
          LET out == exchange_auth_code(token_file, clock, req.configured, req.resp)
          IN  /\ token_file' = out.file
              /\ tk_call' = Call("exchange_auth_code", token_file, clock, req,
                                 [raised |-> out.raised, value |-> out.value,
                                  refreshed |-> FALSE])
    /\ UNCHANGED <<tk_pc, clock>>
    /\ OthersUnchanged

RefreshWithRefreshToken ==
    /\ tk_pc = "ready"
    /\ \E req \in Requests :
          LET out == refresh_with_refresh_token(token_file, clock, req.configured, req.resp)
          IN  /\ token_file' = out.file
              /\ tk_call' = Call("refresh_with_refresh_token", token_file, clock, req,
                                 [raised |-> out.raised, value |-> out.value,
                                  refreshed |-> TRUE])
    /\ UNCHANGED <<tk_pc, clock>>
    /\ OthersUnchanged

GetValidAccessToken ==
    /\ tk_pc = "ready"
    /\ \E req \in Requests :
          LET out == _get_valid_access_token(token_file, clock, req.configured, req.resp)
          IN  /\ token_file' = out.file
              /\ tk_call' = Call("_get_valid_access_token", token_file, clock,
                                 IF out.refreshed THEN req ELSE NoRequest, out)
    /\ UNCHANGED <<tk_pc, clock>>
    /\ OthersUnchanged

\* a second passes
Tick ==
    /\ tk_pc = "ready"
    /\ clock < StartTime + MaxElapsed
    /\ clock' = clock + 1
    /\ UNCHANGED <<tk_pc, token_file, tk_call>>
    /\ OthersUnchanged

NextToken ==
    \/ SaveToken
    \/ SaveTokenFull
    \/ ExchangeAuthCode
    \/ RefreshWithRefreshToken
    \/ GetValidAccessToken
    \/ Tick

SpecToken == InitToken /\ [][NextToken]_vars

----------------------------------------------------------------------------
(* Properties of the token store *)

\* the dict of an answer that holds the tokens: the one under 'data' if
\* there is one
TokenDict(resp) == IF resp.data = None THEN resp.top ELSE resp.data[1]

\* the access tokens and the refresh tokens an answer carries
CarriedAccess(resp) ==
    {TokenDict(resp).access_token, TokenDict(resp).accessToken} \ {None, <<"">>}

CarriedRefresh(resp) ==
    {TokenDict(resp).refresh_token, TokenDict(resp).refreshToken} \ {None, <<"">>}

LastCall == tk_call[1]

Called(op) == tk_pc = "ready" /\ tk_call # None /\ LastCall.op = op

\* the stored expiry time is set and has passed
Expired(stored, time) == stored.expires_at # None /\ stored.expires_at[1] <= time

\* the file holds the tokens of the answer
HoldsTokensOf(file, resp) ==
    /\ file.access_token \in CarriedAccess(resp)
    /\ IF CarriedRefresh(resp) = {} THEN file.refresh_token = None
       ELSE file.refresh_token \in CarriedRefresh(resp)

\* C28: after a refresh or an auth-code exchange that succeeded, the token
\* file holds the access token and the refresh token of the answer, be they
\* at top level or under 'data'; and with an expired token and a refresh
\* token stored, _get_valid_access_token asks for a refresh and returns
\* the access token of the answer, which the file then holds.
C28_TokensPersisted ==
    /\ ((Called("exchange_auth_code") \/ Called("refresh_with_refresh_token"))
           /\ ~LastCall.raised)
          => HoldsTokensOf(token_file, LastCall.req.resp)
    /\ (Called("_get_valid_access_token")
           /\ Expired(LastCall.stored, LastCall.time)
           /\ NonEmpty(LastCall.stored.refresh_token))
          => /\ LastCall.refreshed
             /\ ~LastCall.raised =>
                   /\ LastCall.value \in CarriedAccess(LastCall.req.resp)
                   /\ token_file.access_token = LastCall.value
                   /\ HoldsTokensOf(token_file, LastCall.req.resp)
             /\ (/\ LastCall.req.configured
                 /\ LastCall.req.resp.json
                 /\ CarriedAccess(LastCall.req.resp) # {}) => ~LastCall.raised

\* an expired token was replaced by the one of an answer nested under 'data'
C28_Witness ==
    /\ Called("_get_valid_access_token")
    /\ Expired(LastCall.stored, LastCall.time)
    /\ LastCall.stored.access_token = <<"old_access">>
    /\ LastCall.stored.refresh_token = <<"refresh_tok">>
    /\ LastCall.req.resp.data # None
    /\ LastCall.value = <<"new_access">>
    /\ token_file.refresh_token = <<"new_refresh">>

\* C29: whatever save_token, save_token_full, exchanges and refreshes came
\* before, _get_valid_access_token does not return a stored token whose
\* stored expiry is set and less than 30 seconds ahead: it returns the
\* token of a refresh it made, or raises; it returns the stored token
\* without a refresh only if the expiry is more than 30 seconds ahead or
\* none is stored.
C29_NoStaleToken ==
    Called("_get_valid_access_token") =>
        LET expires_at == LastCall.stored.expires_at
        IN  /\ (expires_at # None /\ expires_at[1] - LastCall.time < 30) =>
                   \/ LastCall.raised
                   \/ /\ LastCall.refreshed
                      /\ LastCall.value \in CarriedAccess(LastCall.req.resp)
                      /\ token_file.access_token = LastCall.value
            /\ (~LastCall.raised /\ ~LastCall.refreshed) =>
                   /\ LastCall.value = LastCall.stored.access_token
                   /\ token_file = LastCall.stored
                   /\ expires_at = None \/ expires_at[1] - LastCall.time > 30

\* a token with 29 seconds left was refreshed
C29_Witness ==
    /\ Called("_get_valid_access_token")
    /\ LastCall.stored.expires_at # None
    /\ LastCall.stored.expires_at[1] - LastCall.time = 29
    /\ LastCall.refreshed
    /\ ~LastCall.raised

====
